---- MODULE Spec2Model ----
(***************************************************************************)
(* A model of the discord-musicbot playback core: the MusicQueue           *)
(* operations of src/musicbot/utils.py, and the per-guild session driven   *)
(* by the commands of the three variants of the bot that the repository    *)
(* holds (src/musicbot.py, src/musicbot/bot.py, src/musicbot/commands.py). *)
(*                                                                         *)
(* Python indices are 0-based, TLA+ sequences 1-based: element i of a      *)
(* deque is s[i + 1].                                                      *)
(***************************************************************************)
EXTENDS Integers, Sequences, FiniteSets, TLC

VARIABLES
    variant,    \* which file's commands drive the session
    queue,      \* the player's MusicQueue: items (_queue), mode, loop flags, _loaded, history
    current,    \* player._current
    node,       \* the track the audio backend is playing, or None
    events,     \* track-end notifications of the backend that are not handled yet
    waiting,    \* musicbot.py: on_wavelink_track_end is suspended in get_wait
    tasks,      \* the play commands that have queued their tracks and not yet looked at the player
    skips,      \* commands.py: the vc.skip() calls a running muse_skip has still to make
    op,         \* the call or command on record, and its arguments
    reply,      \* what it answered: the message sent, or the exception raised
    old,        \* the queue items and current track it found
    ended,      \* the track whose end was handled last
    player,     \* the rest of the player: its channel, paused, volume, and the last seek and request sent
    view,       \* a MusicQueueView: its pages, page_index, buttons, and the page its message shows
    others,     \* the player of another guild
    tree,       \* the command tree at startup: its commands, the hash file, and how far the sync is
    attachment, \* the file the export command sent last: its name and its content
    requester,  \* for each title, the requester the track object last found for it carries, or None
    script      \* how far the session has followed the enqueue / track end / loop scenario

vars == <<variant, queue, current, node, events, waiting, tasks, skips, op, reply, old, ended,
         player, view, others, tree, requester, attachment, script>>

----------------------------------------------------------------------------
(* Bounds *)

MaxQueue == 4       \* longest queue drawn or built
IndexSlack == 2     \* indices are drawn from -IndexSlack .. len + IndexSlack
MaxTasks == 2       \* play commands at a time
MaxSession == 3     \* tracks in the queue and its history when more are queued
MaxHistory == 3     \* tracks the history is let grow to
MaxEvents == 2      \* notifications waiting to be handled

Tracks == {"A", "B", "C"}
None == "None"
Modes == {"normal", "loop", "loop_all"}
Variants == {"musicbot.py", "bot.py", "commands.py"}

----------------------------------------------------------------------------
(* collections.deque *)

\* deque.rotate(n): n steps to the right, to the left when n < 0
Rotate(s, n) ==
    IF Len(s) = 0 THEN s
    ELSE LET k == n % Len(s)
         IN SubSeq(s, Len(s) - k + 1, Len(s)) \o SubSeq(s, 1, Len(s) - k)

AppendLeft(s, x) == <<x>> \o s

PopLeft(s) == Tail(s)

\* the sequences over S of length at most n
SeqUpTo(S, n) == UNION {[1..k -> S] : k \in 0..n}

\* s without its element at 0-based position i
DelAt(s, i) == SubSeq(s, 1, i) \o SubSeq(s, i + 2, Len(s))

\* s with x inserted so that it is at 0-based position i
InsAt(s, i, x) == SubSeq(s, 1, i) \o <<x>> \o SubSeq(s, i + 1, Len(s))

----------------------------------------------------------------------------
(* wavelink.Queue, as MusicQueue inherits it *)

NewQueue ==
    [items |-> <<>>, mode |-> "normal", loop |-> FALSE, loop_all |-> FALSE,
     loaded |-> None, history |-> <<>>]

LoopOne(Q) == Q.loop \/ Q.mode = "loop"
LoopAll(Q) == Q.loop_all \/ Q.mode = "loop_all"

\* Queue.get(): the loaded track again when looping one track; the history
\* put back when looping all and the queue ran empty; else the front.
\* get() that takes no notice of the loop-one mode
QueueGet_noloop(Q) ==
    LET Q1 == IF LoopAll(Q) /\ Q.items = <<>>
              THEN [Q EXCEPT !.items = Q.history, !.history = <<>>] ELSE Q
    IN IF Q1.items = <<>> THEN [ok |-> FALSE, item |-> None, Q |-> Q1]
       ELSE [ok |-> TRUE, item |-> Head(Q1.items),
             Q |-> [Q1 EXCEPT !.items = PopLeft(Q1.items), !.loaded = Head(Q1.items)]]

\* get() that never puts the history back
QueueGet_norefill(Q) ==
    IF LoopOne(Q) /\ Q.loaded # None THEN [ok |-> TRUE, item |-> Q.loaded, Q |-> Q]
    ELSE IF Q.items = <<>> THEN [ok |-> FALSE, item |-> None, Q |-> Q]
    ELSE [ok |-> TRUE, item |-> Head(Q.items),
          Q |-> [Q EXCEPT !.items = PopLeft(Q.items), !.loaded = Head(Q.items)]]

QueueGet(Q) ==
    IF LoopOne(Q) /\ Q.loaded # None
    THEN [ok |-> TRUE, item |-> Q.loaded, Q |-> Q]
    ELSE LET Q1 == IF LoopAll(Q) /\ Q.items = <<>>
                   THEN [Q EXCEPT !.items = Q.history, !.history = <<>>]
                   ELSE Q
         IN IF Q1.items = <<>>
            THEN [ok |-> FALSE, item |-> None, Q |-> Q1]
            ELSE [ok |-> TRUE, item |-> Head(Q1.items),
                  Q |-> [Q1 EXCEPT !.items = PopLeft(Q1.items), !.loaded = Head(Q1.items)]]

----------------------------------------------------------------------------
(* MusicQueue (src/musicbot/utils.py) *)

Raise(Q) == [ok |-> FALSE, Q |-> Q]
Return(Q) == [ok |-> TRUE, Q |-> Q]

put_at(Q, index, item) ==
    IF index >= Len(Q.items) \/ index < 0 THEN Raise(Q)
    ELSE LET s1 == Rotate(Q.items, -index)
             s2 == AppendLeft(s1, item)
             s3 == Rotate(s2, index)
         IN Return([Q EXCEPT !.items = s3])

\* n calls of self.get(), each on the queue the one before left
RECURSIVE GetTimes(_, _)
GetTimes(Q, n) == IF n <= 0 THEN Q ELSE GetTimes(QueueGet(Q).Q, n - 1)

skip_to(Q, index) ==
    IF index >= Len(Q.items) \/ index < 0 THEN Raise(Q)
    ELSE Return(GetTimes(Q, index - 1))

\* swap without its test for equal indices
swap_same(Q, first, second) ==
    IF first >= Len(Q.items) \/ second >= Len(Q.items) THEN Raise(Q)
    ELSE IF Q.items = <<>> THEN Raise(Q)
    ELSE LET s1 == Rotate(Q.items, -first)
             first_item == Head(s1)
             s2 == Rotate(s1, first - second)
             second_item == Head(s2)
             s3 == AppendLeft(PopLeft(s2), first_item)
             s4 == Rotate(s3, second - first)
             s5 == AppendLeft(PopLeft(s4), second_item)
         IN Return([Q EXCEPT !.items = Rotate(s5, first)])

\* (on an empty deque, which negative indices get to, self._queue[0] raises
\* IndexError too)
swap(Q, first, second) ==
    IF first >= Len(Q.items) \/ second >= Len(Q.items) THEN Raise(Q)
    ELSE IF first = second THEN Raise(Q)
    ELSE IF Q.items = <<>> THEN Raise(Q)
    ELSE LET s1 == Rotate(Q.items, -first)
             first_item == Head(s1)
             s2 == Rotate(s1, first - second)
             second_item == Head(s2)
             s3 == AppendLeft(PopLeft(s2), first_item)
             s4 == Rotate(s3, second - first)
             s5 == AppendLeft(PopLeft(s4), second_item)
         IN Return([Q EXCEPT !.items = Rotate(s5, first)])

\* move with the last rotation left out: the moved item stays at the front
move_unrotated(Q, before, after) ==
    IF before >= Len(Q.items) \/ after >= Len(Q.items) THEN Raise(Q)
    ELSE IF before = after THEN Raise(Q)
    ELSE IF Q.items = <<>> THEN Raise(Q)
    ELSE LET s1 == Rotate(Q.items, -before)
             item == Head(s1)
             s2 == Rotate(PopLeft(s1), before - after)
         IN Return([Q EXCEPT !.items = AppendLeft(s2, item)])

\* (on an empty deque, which negative indices get to, popleft raises
\* IndexError too)
move(Q, before, after) ==
    IF before >= Len(Q.items) \/ after >= Len(Q.items) THEN Raise(Q)
    ELSE IF before = after THEN Raise(Q)
    ELSE IF Q.items = <<>> THEN Raise(Q)
    ELSE LET s1 == Rotate(Q.items, -before)
             item == Head(s1)
             s2 == Rotate(PopLeft(s1), before - after)
             s3 == AppendLeft(s2, item)
         IN Return([Q EXCEPT !.items = Rotate(s3, after)])

----------------------------------------------------------------------------
(* The calls of MusicQueue's own operations: any queue, any index *)

\* a player as connect leaves it: in a channel, not paused, at the default volume
Here == "here"
There == "there"
DefaultVolume == 100
NewPlayer(channel) ==
    [channel |-> channel, paused |-> FALSE, volume |-> DefaultVolume, position |-> 0,
     request |-> "none"]
Author == "author"
NoView == [pages |-> <<>>, page_index |-> 0, shown |-> 0, disabled |-> {}, items |-> {},
           finished |-> TRUE, author_id |-> Author, modal |-> FALSE]
NoOthers == [connected |-> FALSE, items |-> <<>>]
NoFile == [name |-> "", data |-> <<>>]

NoRequester == [t \in Tracks |-> None]

NoTree ==
    [commands |-> <<>>, exists |-> FALSE, file |-> <<>>, pc |-> "off", tree_hash |-> <<>>,
     data |-> <<>>, log |-> <<>>, runs |-> 0, last |-> "none", same |-> FALSE]

NoOp == [name |-> "none", a |-> 0, b |-> 0, x |-> None]
Call(name, a, b, x) == [name |-> name, a |-> a, b |-> b, x |-> x]
Snapshot == [items |-> queue.items, current |-> current, player |-> player]

Indices(Q) == (0 - IndexSlack) .. (Len(Q.items) + IndexSlack)

\* a queue as a session can hold it: _loaded is a track that was taken from it
DrawnQueues ==
    {[NewQueue EXCEPT !.items = s, !.mode = m, !.loaded = l] :
        s \in SeqUpTo(Tracks, MaxQueue), m \in Modes, l \in {None, "A"}}

InitQueue ==
    /\ variant = "utils"
    /\ queue \in DrawnQueues
    /\ current = None
    /\ node = None
    /\ events = <<>>
    /\ waiting = FALSE
    /\ ended = None
    /\ tree = NoTree
    /\ requester = NoRequester
    /\ attachment = NoFile
    /\ player = NewPlayer(Here)
    /\ view = NoView
    /\ others = NoOthers
    /\ tasks = 0
    /\ skips = 0
    /\ op = NoOp
    /\ reply = "none"
    /\ old = Snapshot
    /\ script = 0

\* the call has run: r is what the operation gave
Called(c, r) ==
    /\ op = NoOp
    /\ op' = c
    /\ old' = Snapshot
    /\ queue' = r.Q
    /\ reply' = IF r.ok THEN "returned" ELSE "IndexError"
    /\ UNCHANGED <<variant, attachment, tree, requester, player, view, others, ended, current, node, events, waiting, tasks, skips, script>>

CallPutAt ==
    \E i \in Indices(queue), x \in Tracks :
        Called(Call("put_at", i, 0, x), put_at(queue, i, x))

CallSkipTo ==
    \E i \in Indices(queue) : Called(Call("skip_to", i, 0, None), skip_to(queue, i))

CallSwap ==
    \E i, j \in Indices(queue) : Called(Call("swap", i, j, None), swap(queue, i, j))

CallMove ==
    \E i, j \in Indices(queue) : Called(Call("move", i, j, None), move(queue, i, j))

NextQueue == CallPutAt \/ CallSkipTo \/ CallSwap \/ CallMove

SpecQueue == InitQueue /\ [][NextQueue]_vars

----------------------------------------------------------------------------
(* The session of one guild: the player, the audio backend and its         *)
(* notifications. A request to the backend takes effect when it is sent;   *)
(* the backend's notifications are handled later, in the order sent.       *)

Wavelink2 == variant = "musicbot.py"

Sess == [queue |-> queue, current |-> current, node |-> node, events |-> events]

Fits(s) ==
    /\ Len(s.queue.items) <= MaxSession
    /\ Len(s.queue.history) <= MaxHistory
    /\ Len(s.events) <= MaxEvents

Commit(s) ==
    /\ Fits(s)
    /\ queue' = s.queue
    /\ current' = s.current
    /\ node' = s.node
    /\ events' = s.events

\* Player.play(track): _current and queue._loaded are set, the backend starts
\* the track (ending the one it was playing as "replaced"), and the track is
\* put to the history if add_history.
PlayerPlay(s, track, add_history) ==
    [s EXCEPT !.current = track,
              !.queue.loaded = track,
              !.queue.history = IF add_history THEN Append(@, track) ELSE @,
              !.node = track,
              !.events = IF s.node # None THEN Append(@, "replaced") ELSE @]

\* wavelink 2 puts the track to the history unless it replays the looped track;
\* wavelink 3 unless the caller says not to
AddsHistory(Q) == ~(Q.loop /\ Q.loaded # None)

\* Player.skip() / Player.stop(), force = True: the loaded track is forgotten
\* and the backend stops what it plays
PlayerStop(s) ==
    [s EXCEPT !.queue.loaded = None,
              !.node = None,
              !.events = IF s.node # None THEN Append(@, "stopped") ELSE @]

\* Player.playing / Player.is_playing()
Playing(s) == s.current # None

\* get() and play() of what it gave; a QueueEmpty ends the caller
GetAndPlay(s, add_history) ==
    LET g == QueueGet(s.queue)
        s1 == [s EXCEPT !.queue = g.Q]
    IN IF g.ok
       THEN PlayerPlay(s1, g.item, IF Wavelink2 THEN AddsHistory(s1.queue) ELSE add_history)
       ELSE s1

\* wavelink 3, AutoPlayMode.partial: Player._do_partial
DoPartial(s, history) == IF s.current = None THEN GetAndPlay(s, history) ELSE s

\* a player whose autoplay is disabled
AutoPlayEvent_disabled(s, reason) == s

\* wavelink 3, AutoPlayMode.partial: Player._auto_play_event
AutoPlayEvent(s, reason) ==
    IF reason = "replaced" THEN s
    ELSE IF s.queue.mode = "loop" THEN DoPartial(s, FALSE)
    ELSE DoPartial(s, TRUE)

\* musicbot.py: does on_wavelink_track_end suspend in get_wait?
MustWait(s) == ~(s.queue.loop \/ s.queue.loop_all) /\ s.queue.items = <<>>

on_wavelink_track_end(s) == IF MustWait(s) THEN s ELSE GetAndPlay(s, TRUE)

\* the websocket's part: the player has no current track any more, unless the
\* track was replaced
TrackEnded(s, reason) ==
    [s EXCEPT !.events = Tail(@), !.current = IF reason = "replaced" THEN @ ELSE None]

----------------------------------------------------------------------------
(* What the scenario of enqueueing A, B, C, a track end and loop-one has    *)
(* come to: 0 a new session, 1 the tracks are queued, 2 the play command is *)
(* done, 3 the next track end is handled, 4 loop-one is selected, 5 a track  *)
(* end is handled after that; Off when anything else has happened.          *)

Off == 0 - 1
Max(a, b) == IF a >= b THEN a ELSE b
ABC == <<"A", "B", "C">>

Pristine ==
    /\ queue = NewQueue /\ current = None /\ node = None /\ events = <<>>
    /\ tasks = 0

ScriptOnPut(tracks) == IF script = 0 /\ Pristine /\ tracks = ABC THEN 1 ELSE Off
ScriptOnStart == IF script = 1 THEN 2 ELSE Off
ScriptOnTrackEnd == IF script = 2 THEN 3 ELSE IF script \in {4, 5} THEN 5 ELSE Off
ScriptOnLoop(Q) == IF script \in {3, 4, 5} /\ LoopOne(Q) /\ ~LoopAll(Q) THEN Max(script, 4) ELSE Off

----------------------------------------------------------------------------
(* The backend *)


\* the track the backend plays comes to its end
NodeFinish ==
    /\ node # None
    /\ node' = None
    /\ events' = Append(events, "finished")
    /\ UNCHANGED <<variant, attachment, tree, requester, player, view, others, ended, queue, current, waiting, tasks, skips, op, reply, old, script>>

\* the oldest notification is handled
HandleTrackEnd ==
    /\ events # <<>>
    /\ LET reason == Head(events)
           s0 == TrackEnded(Sess, reason)
       IN /\ Commit(IF Wavelink2 THEN on_wavelink_track_end(s0)
                    ELSE AutoPlayEvent(s0, reason))
          /\ waiting' = IF Wavelink2 /\ MustWait(s0) THEN TRUE ELSE waiting
    /\ ended' = IF Head(events) = "replaced" THEN ended ELSE current
    /\ script' = ScriptOnTrackEnd
    /\ UNCHANGED <<variant, attachment, tree, requester, player, view, others, tasks, skips, op, reply, old>>

----------------------------------------------------------------------------
(* The commands *)

\* The commands leave op, reply and old to the specification they are part of,
\* which either keeps a record of the command, of what it found and of what it
\* replied, or keeps none.
Seen(c, r) == op' = c /\ reply' = r /\ old' = Snapshot
Unseen == UNCHANGED <<op, reply, old>>

InSession(s) == Len(s.queue.items) + Len(s.queue.history)

\* what a search gives to queue: one track, or the tracks of a playlist
Results == {SubSeq(ABC, i, Len(ABC)) : i \in 1..Len(ABC)}

\* muse_play up to its followup.send: the tracks are put to the queue; in
\* musicbot.py a handler suspended in get_wait is woken and runs before the
\* command goes on.
put_wait(s, tracks) == [s EXCEPT !.queue.items = @ \o tracks]

\* a search gives new track objects, which carry no requester; one track is
\* a Playable, several are a Playlist
untagged(r, tracks) == [t \in Tracks |-> IF \E i \in 1..Len(tracks) : tracks[i] = t THEN None ELSE r[t]]
IsPlaylist(tracks) == Len(tracks) > 1

\* every track of the result is given the requester
tag_each(r, tracks, who) ==
    [t \in Tracks |-> IF \E i \in 1..Len(tracks) : tracks[i] = t THEN who ELSE r[t]]

\* commands.py: a playlist's own extras are given the requester, and no track
\* of it is; a single track's extras are
tag_3(r, tracks, who) == IF IsPlaylist(tracks) THEN r ELSE tag_each(r, tracks, who)

\* musicbot.py: put_all_wait sets sub_item.requester on each track before its
\* put_wait; bot.py: search.requester, or search.track_extras(requester=...)
tag(r, tracks, who) ==
    IF variant = "commands.py" THEN tag_3(untagged(r, tracks), tracks, who)
    ELSE tag_each(untagged(r, tracks), tracks, who)

MusePlayPut(tracks) ==
    /\ tasks < MaxTasks
    /\ tracks # <<>>
    /\ InSession(Sess) + Len(tracks) <= MaxSession
    /\ LET s1 == put_wait(Sess, tracks)
       IN IF Wavelink2 /\ waiting
          THEN Commit(GetAndPlay(s1, TRUE)) /\ waiting' = FALSE
          ELSE Commit(s1) /\ waiting' = waiting
    /\ requester' = tag(requester, tracks, Author)
    /\ tasks' = tasks + 1
    /\ script' = ScriptOnPut(tracks)
    /\ UNCHANGED <<variant, attachment, tree, player, view, others, ended, skips>>

\* the search found nothing: musicbot.py and bot.py end in the transformer's
\* error, commands.py sends its message and goes on to tracks[0]
PlayNothingReply == IF variant = "commands.py" THEN "IndexError" ELSE "no tracks"

MusePlayNothing ==
    /\ script' = Off
    /\ UNCHANGED <<variant, attachment, tree, requester, player, view, others, ended, queue, current, node, events, waiting, tasks, skips>>

\* a play command that does not look whether the player plays
play_always(s) == GetAndPlay(s, TRUE)

\* if not vc.playing: await vc.play(vc.queue.get())
play_if_idle(s) == IF Playing(s) THEN s ELSE GetAndPlay(s, TRUE)

PlayStartReply == IF ~Playing(Sess) /\ ~QueueGet(queue).ok THEN "QueueEmpty" ELSE "done"

MusePlayStart ==
    /\ tasks > 0
    /\ Commit(play_if_idle(Sess))
    /\ tasks' = tasks - 1
    /\ script' = ScriptOnStart
    /\ UNCHANGED <<variant, attachment, tree, requester, player, view, others, ended, waiting, skips>>

\* Python's s[i]: i from -len to len - 1
PyValid(s, i) == 0 - Len(s) <= i /\ i < Len(s)
PyIndex(s, i) == IF i < 0 THEN Len(s) + i ELSE i

\* muse_move of musicbot.py
muse_move_1(Q, before, after) ==
    IF before > Len(Q.items) \/ before < 1 \/ after > Len(Q.items) \/ after < 1
    THEN Raise(Q)
    ELSE IF before # after
    THEN Return([Q EXCEPT !.items = DelAt(InsAt(Q.items, after - 1, Q.items[before]), before)])
    ELSE Return(Q)

\* muse_move of bot.py
muse_move_2(Q, before, after) == move(Q, before - 1, after - 1)

\* muse_move of commands.py: the track is taken out before put_at looks at
\* its index
muse_move_3(Q, before, after) ==
    IF ~PyValid(Q.items, before - 1) THEN Raise(Q)
    ELSE LET temp == Q.items[PyIndex(Q.items, before - 1) + 1]
             Q1 == [Q EXCEPT !.items = DelAt(Q.items, PyIndex(Q.items, before - 1))]
         IN put_at(Q1, after - 1, temp)

muse_move(Q, before, after) ==
    IF variant = "musicbot.py" THEN muse_move_1(Q, before, after)
    ELSE IF variant = "bot.py" THEN muse_move_2(Q, before, after)
    ELSE muse_move_3(Q, before, after)

Positions == (0 - 1) .. (Len(queue.items) + 1)

MoveReply(before, after) == IF muse_move(queue, before, after).ok THEN "moved" ELSE "invalid"

MuseMove(before, after) ==
    /\ skips = 0
    /\ queue' = muse_move(queue, before, after).Q
    /\ script' = Off
    /\ UNCHANGED <<variant, attachment, tree, requester, player, view, others, ended, current, node, events, waiting, tasks, skips>>

\* MusicQueue.remove_before_index of musicbot.py
RECURSIVE remove_before_index(_, _)
remove_before_index(Q, index) ==
    IF index <= 0 \/ Q.items = <<>> THEN Q
    ELSE remove_before_index([Q EXCEPT !.items = DelAt(Q.items, 0)], index - 1)

\* muse_skip of musicbot.py
muse_skip_1(s, index) ==
    IF s.queue.items = <<>> THEN [reply |-> "empty", s |-> s]
    ELSE IF index > Len(s.queue.items) \/ index < 1 THEN [reply |-> "invalid", s |-> s]
    ELSE LET Q1 == IF index > 1 THEN remove_before_index(s.queue, index - 1) ELSE s.queue
             Q2 == [Q1 EXCEPT !.loop = FALSE]
         IN [reply |-> "skipped", s |-> PlayerStop([s EXCEPT !.queue = Q2])]

\* muse_skip of bot.py
muse_skip_2(s, index) ==
    IF s.queue.items = <<>> THEN [reply |-> "empty", s |-> s]
    ELSE LET r == skip_to(s.queue, index - 1)
         IN IF ~r.ok THEN [reply |-> "invalid", s |-> s]
            ELSE [reply |-> "skipped", s |-> PlayerStop([s EXCEPT !.queue = r.Q])]

\* muse_skip of commands.py, up to the return of its first vc.skip()
muse_skip_3(s, index) ==
    IF s.queue.items = <<>> THEN [reply |-> "empty", s |-> s]
    ELSE IF index <= 0 \/ index > Len(s.queue.items) THEN [reply |-> "invalid", s |-> s]
    ELSE [reply |-> IF index = 1 THEN "skipped" ELSE "skipping", s |-> PlayerStop(s)]

muse_skip(s, index) ==
    IF variant = "musicbot.py" THEN muse_skip_1(s, index)
    ELSE IF variant = "bot.py" THEN muse_skip_2(s, index)
    ELSE muse_skip_3(s, index)

SkipReply(index) == muse_skip(Sess, index).reply

MuseSkip(index) ==
    /\ skips = 0
    /\ LET r == muse_skip(Sess, index)
       IN /\ Commit(r.s)
          /\ skips' = IF r.reply = "skipping" THEN index - 1 ELSE 0
    /\ script' = Off
    /\ UNCHANGED <<variant, attachment, tree, requester, player, view, others, ended, waiting, tasks>>

\* commands.py: the next vc.skip() of the loop of muse_skip
MuseSkipAgain ==
    /\ skips > 0
    /\ Commit(PlayerStop(Sess))
    /\ skips' = skips - 1
    /\ UNCHANGED <<variant, attachment, tree, requester, player, view, others, ended, waiting, tasks, script>>

LoopOptions == {"All Tracks", "Current Track", "Off"}

muse_loop_1_adding(Q, loop) ==
    IF loop = "All Tracks" THEN [Q EXCEPT !.loop_all = TRUE]
    ELSE IF loop = "Current Track" THEN [Q EXCEPT !.loop = TRUE]
    ELSE [Q EXCEPT !.loop = FALSE, !.loop_all = FALSE]

\* muse_loop of musicbot.py
muse_loop_1(Q, loop) ==
    IF loop = "All Tracks" THEN [Q EXCEPT !.loop = FALSE, !.loop_all = TRUE]
    ELSE IF loop = "Current Track" THEN [Q EXCEPT !.loop = TRUE, !.loop_all = FALSE]
    ELSE [Q EXCEPT !.loop = FALSE, !.loop_all = FALSE]

\* muse_loop of bot.py and of commands.py
muse_loop_3(Q, loop) ==
    IF loop = "All Tracks" THEN [Q EXCEPT !.mode = "loop"]
    ELSE IF loop = "Current Track" THEN [Q EXCEPT !.mode = "loop_all"]
    ELSE [Q EXCEPT !.mode = "normal"]

muse_loop(Q, loop) == IF Wavelink2 THEN muse_loop_1(Q, loop) ELSE muse_loop_3(Q, loop)

LoopReply(loop) ==
    IF loop = "All Tracks" THEN "Looping over all tracks in the queue until disabled."
    ELSE IF loop = "Current Track" THEN "Looping the current track until disabled."
    ELSE "Reset the looping settings."

MuseLoop(loop) ==
    /\ queue' = muse_loop(queue, loop)
    /\ script' = ScriptOnLoop(queue')
    /\ UNCHANGED <<variant, attachment, tree, requester, player, view, others, ended, current, node, events, waiting, tasks, skips>>

----------------------------------------------------------------------------
(* The session from its start: a player that has just connected *)

Init ==
    /\ variant \in Variants
    /\ queue = NewQueue
    /\ current = None
    /\ node = None
    /\ events = <<>>
    /\ waiting = FALSE
    /\ ended = None
    /\ tree = NoTree
    /\ requester = NoRequester
    /\ attachment = NoFile
    /\ player = NewPlayer(Here)
    /\ view = NoView
    /\ others = NoOthers
    /\ tasks = 0
    /\ skips = 0
    /\ op = NoOp
    /\ reply = "none"
    /\ old = Snapshot
    /\ script = 0

Next ==
    \/ \E tracks \in Results : MusePlayPut(tracks) /\ Unseen
    \/ MusePlayNothing /\ Unseen
    \/ MusePlayStart /\ Unseen
    \/ \E before, after \in Positions : MuseMove(before, after) /\ Unseen
    \/ \E index \in Positions : MuseSkip(index) /\ Unseen
    \/ MuseSkipAgain /\ Unseen
    \/ \E loop \in LoopOptions : MuseLoop(loop) /\ Unseen
    \/ NodeFinish
    \/ HandleTrackEnd

Spec == Init /\ [][Next]_vars

----------------------------------------------------------------------------
(* The move and loop commands, given to a queue of any content, with a     *)
(* record of each command, of the queue it found and of its reply          *)

QueuesOf(n) == {[NewQueue EXCEPT !.items = s] : s \in SeqUpTo(Tracks, n)}

InitCommands ==
    /\ variant \in Variants
    /\ queue \in QueuesOf(MaxSession)
    /\ current = None
    /\ node = None
    /\ events = <<>>
    /\ waiting = FALSE
    /\ ended = None
    /\ tree = NoTree
    /\ requester = NoRequester
    /\ attachment = NoFile
    /\ player = NewPlayer(Here)
    /\ view = NoView
    /\ others = NoOthers
    /\ tasks = 0
    /\ skips = 0
    /\ op = NoOp
    /\ reply = "none"
    /\ old = Snapshot
    /\ script = Off

MoveSeen(before, after) ==
    MuseMove(before, after) /\ Seen(Call("move", before, after, None), MoveReply(before, after))

LoopSeen(loop) == MuseLoop(loop) /\ Seen(Call("loop", 0, 0, loop), LoopReply(loop))

NextCommands ==
    \/ \E before, after \in Positions : MoveSeen(before, after)
    \/ \E loop \in LoopOptions : LoopSeen(loop)

SpecCommands == InitCommands /\ [][NextCommands]_vars

----------------------------------------------------------------------------
(* The skip command, given once to a session that plays a track, with a    *)
(* record of the command and of the queue it found; the track may come to  *)
(* its end before the command is given, and the session is followed until  *)
(* the notifications are handled.                                          *)

InitSkip ==
    /\ variant \in Variants
    /\ \E Q \in QueuesOf(MaxSession), x \in Tracks, m \in Modes :
          /\ queue = [Q EXCEPT !.loaded = x, !.history = <<x>>,
                               !.mode = IF Wavelink2 THEN "normal" ELSE m,
                               !.loop = Wavelink2 /\ m = "loop",
                               !.loop_all = Wavelink2 /\ m = "loop_all"]
          /\ current = x
          /\ node = x
    /\ events = <<>>
    /\ waiting = FALSE
    /\ ended = None
    /\ tree = NoTree
    /\ requester = NoRequester
    /\ attachment = NoFile
    /\ player = NewPlayer(Here)
    /\ view = NoView
    /\ others = NoOthers
    /\ tasks = 0
    /\ skips = 0
    /\ op = NoOp
    /\ reply = "none"
    /\ old = Snapshot
    /\ script = Off

SkipSeen(index) ==
    op = NoOp /\ MuseSkip(index) /\ Seen(Call("skip", index, 0, None), SkipReply(index))

SkipAgainSeen ==
    /\ MuseSkipAgain
    /\ reply' = IF skips = 1 THEN "skipped" ELSE "skipping"
    /\ UNCHANGED <<op, old>>

FinishBefore == op = NoOp /\ NodeFinish

NextSkip ==
    \/ \E index \in Positions : SkipSeen(index)
    \/ SkipAgainSeen
    \/ FinishBefore
    \/ HandleTrackEnd

SpecSkip == InitSkip /\ [][NextSkip]_vars

----------------------------------------------------------------------------
(* Play commands alone, up to MaxTasks of them at a time between their put  *)
(* and their look at the player, from a new session; each command's look at *)
(* the player is recorded with the number of commands that had queued their *)
(* tracks by then, the number the look before it found, and what it found.  *)

StartSeen == MusePlayStart /\ Seen(Call("play", tasks, op.a, None), PlayStartReply)

NextPlays ==
    \/ \E tracks \in Results : MusePlayPut(tracks) /\ Unseen
    \/ StartSeen
    \/ NodeFinish
    \/ HandleTrackEnd

SpecPlays == Init /\ [][NextPlays]_vars

----------------------------------------------------------------------------
(* musicbot.py, once the queue has run empty and on_wavelink_track_end is   *)
(* suspended in get_wait: the play commands given from then on, each        *)
(* step of a command on record                                              *)

\* the tracks played before the queue ran empty
Played == SeqUpTo(Tracks, MaxSession - 1) \ {<<>>}

InitWaiting ==
    /\ variant = "musicbot.py"
    /\ \E h \in Played :
          queue = [NewQueue EXCEPT !.history = h, !.loaded = h[Len(h)]]
    /\ current = None
    /\ node = None
    /\ events = <<>>
    /\ waiting = TRUE
    /\ ended = None
    /\ tree = NoTree
    /\ requester = NoRequester
    /\ attachment = NoFile
    /\ player = NewPlayer(Here)
    /\ view = NoView
    /\ others = NoOthers
    /\ tasks = 0
    /\ skips = 0
    /\ op = NoOp
    /\ reply = "none"
    /\ old = Snapshot
    /\ script = Off

PutSeen(tracks) == MusePlayPut(tracks) /\ Seen(Call("play", tasks, 0, None), "added")

NextWaiting ==
    \/ \E tracks \in Results : PutSeen(tracks)
    \/ StartSeen
    \/ NodeFinish
    \/ HandleTrackEnd

SpecWaiting == InitWaiting /\ [][NextWaiting]_vars

----------------------------------------------------------------------------
(* The play commands, those whose search finds nothing among them, each on  *)
(* record with what the handler ended in                                    *)

NothingSeen == MusePlayNothing /\ Seen(Call("play", tasks, 0, "nothing"), PlayNothingReply)

NextSearch ==
    \/ NothingSeen
    \/ \E tracks \in Results : PutSeen(tracks)
    \/ StartSeen
    \/ NodeFinish
    \/ HandleTrackEnd

SpecSearch == Init /\ [][NextSearch]_vars

----------------------------------------------------------------------------
(* Play commands given one at a time, in normal mode, and the tracks ending: *)
(* a command that has queued its tracks goes on to look at the player, the   *)
(* backend comes to the end of the track it plays, and the notification is   *)
(* handled.                                                                  *)

PlayInTurn == tasks = 0 /\ (\E tracks \in Results : MusePlayPut(tracks)) /\ Unseen
PlayGoesOn == MusePlayStart /\ Unseen

NextInTurn ==
    \/ PlayInTurn
    \/ PlayGoesOn
    \/ NodeFinish
    \/ HandleTrackEnd

SpecInTurn ==
    /\ Init
    /\ [][NextInTurn]_vars
    /\ WF_vars(PlayGoesOn)
    /\ WF_vars(NodeFinish)
    /\ WF_vars(HandleTrackEnd)

----------------------------------------------------------------------------
(* commands.py: the queue exported to a file, and a file imported           *)

\* track.raw_data, the payload the track was made from, and
\* wavelink.Playable(data), the track made from a payload
raw_data(track) == [encoded |-> track]
Playable(data) == data.encoded

\* json.dumps(raw_data).encode() and json.loads(raw_data): the list as text,
\* item after item, and the text read back
dumps(raw) == [i \in 1..Len(raw) |-> <<"{", raw[i].encoded, "}">>]
loads(text) == [i \in 1..Len(text) |-> [encoded |-> text[i][2]]]

\* raw_data = [track.raw_data for track in vc.queue], sent as a .json file
export_file(Q) ==
    [name |-> "music_queue_export.json",
     data |-> dumps([i \in 1..Len(Q.items) |-> raw_data(Q.items[i])])]

MuseExport ==
    /\ attachment' = export_file(queue)
    /\ script' = Off
    /\ UNCHANGED <<variant, tree, requester, player, view, others, ended, queue, current, node,
                   events, waiting, tasks, skips>>

endswith_json(name) == name \in {"music_queue_export.json"}

converted_tracks(file) == LET loaded_data == loads(file.data)
                          IN [i \in 1..Len(loaded_data) |-> Playable(loaded_data[i])]

\* vc.queue.clear(); vc.queue.put(converted_tracks): the items go, the
\* history and the loaded track stay
put_imported(s, tracks) == [s EXCEPT !.queue.items = tracks]

muse_import(s, file) ==
    IF ~endswith_json(file.name) THEN s
    ELSE play_if_idle(put_imported(s, converted_tracks(file)))

ImportReply(file) ==
    IF ~endswith_json(file.name) THEN "Bad input: Given file must end with .json."
    ELSE IF ~Playing(Sess) /\ ~QueueGet(put_imported(Sess, converted_tracks(file)).queue).ok
    THEN "QueueEmpty"
    ELSE "Imported"

\* the files a member may attach: the one exported last, or one of another kind
ImportFiles == {attachment, [name |-> "notes.txt", data |-> <<>>]} \ {NoFile}

MuseImport(file) ==
    /\ Commit(muse_import(Sess, file))
    /\ requester' = IF endswith_json(file.name)
                    THEN untagged(requester, converted_tracks(file)) ELSE requester
    /\ script' = Off
    /\ UNCHANGED <<variant, attachment, tree, player, view, others, ended, waiting, tasks, skips>>

InitImport == Init /\ variant = "commands.py"

ImportSeen(file) ==
    MuseImport(file) /\ Seen(Call("import", Len(file.data), 0, file.name), ImportReply(file))

NextImport ==
    \/ \E tracks \in Results : MusePlayPut(tracks) /\ Unseen
    \/ MusePlayStart /\ Unseen
    \/ \E loop \in LoopOptions : MuseLoop(loop) /\ Unseen
    \/ MuseExport /\ Unseen
    \/ \E file \in ImportFiles : ImportSeen(file)
    \/ NodeFinish
    \/ HandleTrackEnd

SpecImport == InitImport /\ [][NextImport]_vars

----------------------------------------------------------------------------
(* The commands of commands.py that act on the player itself: pause,       *)
(* resume, volume and seek.                                                *)

\* the check every one of them carries: an administrator, or a member in the
\* player's channel
is_in_bot_vc(admin, voice) ==
    admin \/ (player.channel # None /\ voice # None /\ voice = player.channel)

Members == BOOLEAN \X {None, Here, There}

\* Player.pause(value): the backend is told and the flag is set, whatever the
\* player is playing
pause(value) == [player EXCEPT !.paused = value, !.request = "pause"]

muse_pause ==
    IF player.channel # None
    THEN [player |-> pause(~player.paused),
          reply |-> IF player.paused THEN "Resumed playback." ELSE "Paused playback."]
    ELSE [player |-> player, reply |-> "No player to perform this on."]

muse_resume ==
    IF player.channel # None
    THEN IF player.paused
         THEN [player |-> pause(FALSE), reply |-> "Resumed playback."]
         ELSE [player |-> player, reply |-> "The music player is not paused."]
    ELSE [player |-> player, reply |-> "No player to perform this on."]

\* Player.set_volume(value): the value is brought into 0..1000, sent and kept
MaxVolume == 1000
Min(a, b) == IF a < b THEN a ELSE b
set_volume(value) ==
    [player EXCEPT !.volume = Max(Min(value, MaxVolume), 0), !.request = "volume"]

\* the volumes a member asks for: <<v>>, or <<>> to ask what the volume is
Volumes == {<<>>} \cup {<<v>> : v \in {0 - 1, 0, 50, MaxVolume, MaxVolume + 1}}

muse_volume(volume) ==
    IF player.channel # None
    THEN IF volume = <<>>
         THEN [player |-> player, reply |-> "Current volume is"]
         ELSE [player |-> set_volume(volume[1]), reply |-> "Changed volume to"]
    ELSE [player |-> player, reply |-> "No player to perform this on."]

\* what the backend says of a track: whether it can be sought in, and its
\* length in milliseconds
is_seekable(track) == track # "B"
length(track) == IF track = "A" THEN 61000 ELSE IF track = "B" THEN 0 ELSE 2000

\* ShortTime.transform: the segments of "h:m:s" weigh 1, 60, 3600 and 86400
\* seconds from the right, and the sum is kept in milliseconds
Weights == <<1, 60, 3600, 86400>>
RECURSIVE WeighedSum(_, _)
WeighedSum(segments, k) ==
    IF k > Len(segments) \/ k > Len(Weights) THEN 0
    ELSE Weights[k] * segments[Len(segments) + 1 - k] + WeighedSum(segments, k + 1)
ShortTime(segments) == WeighedSum(segments, 1) * 1000

\* the positions a member asks for, as the numbers between the colons
MaxSegments == 2
MaxSegment == 2
ShortTimes == SeqUpTo((0 - 1) .. MaxSegment, MaxSegments) \ {<<>>}

\* Player.seek(position)
seek(position) == [player EXCEPT !.position = position, !.request = "seek"]
seek_unchecked(position) == TRUE
seek_allowed(position) ==
    ~(position.seconds > length(current) \/ position.seconds < 0)

muse_seek(position) ==
    IF player.channel # None
    THEN IF current # None
         THEN IF is_seekable(current)
              THEN IF ~seek_allowed(position)
                   THEN [player |-> player,
                         reply |-> "The track length doesn't support that position."]
                   ELSE [player |-> seek(position.seconds), reply |-> "Jumped to position"]
              ELSE [player |-> player, reply |-> "This track doesn't allow seeking, sorry."]
         ELSE [player |-> player, reply |-> "No track currently playing to seek within."]
    ELSE [player |-> player, reply |-> "No player to perform this on."]

\* a command on the player: the check, then the command; r is what the
\* command, let through, does
Control(who, c, r) ==
    /\ IF is_in_bot_vc(who[1], who[2])
       THEN player' = r.player /\ Seen(c, r.reply)
       ELSE player' = player /\ Seen(c, "NotInBotVoiceChannel")
    /\ UNCHANGED <<variant, attachment, tree, requester, view, others, ended, queue, current, node, events, waiting, tasks,
                   skips, script>>

MusePause(who) == Control(who, Call("pause", 0, 0, None), muse_pause)
MuseResume(who) == Control(who, Call("resume", 0, 0, None), muse_resume)
MuseVolume(who, volume) ==
    Control(who, Call("volume", IF volume = <<>> THEN 0 ELSE volume[1], Len(volume), None),
            muse_volume(volume))
MuseSeek(who, segments) ==
    LET position == [seconds |-> ShortTime(segments), original |-> segments]
    IN Control(who, Call("seek", position.seconds, 0, None), muse_seek(position))

\* a session of commands.py: no player, or a player in a channel that plays
\* nothing yet, or plays a track or has paused it with tracks left in the queue
InitControls ==
    /\ variant = "commands.py"
    /\ \/ player = NewPlayer(None) /\ queue = NewQueue /\ current = None
       \/ player = NewPlayer(Here) /\ queue = NewQueue /\ current = None
       \/ \E x \in Tracks, Q \in QueuesOf(1), paused \in BOOLEAN :
             /\ player = [NewPlayer(Here) EXCEPT !.paused = paused]
             /\ queue = [Q EXCEPT !.loaded = x, !.history = <<x>>]
             /\ current = x
    /\ node = current
    /\ events = <<>>
    /\ waiting = FALSE
    /\ ended = None
    /\ tree = NoTree
    /\ requester = NoRequester
    /\ attachment = NoFile
    /\ view = NoView
    /\ others = NoOthers
    /\ tasks = 0
    /\ skips = 0
    /\ op = NoOp
    /\ reply = "none"
    /\ old = Snapshot
    /\ script = Off

\* one command is given; a paused track does not come to its end
NextControls ==
    \/ op = NoOp /\ \E who \in Members : MusePause(who)
    \/ op = NoOp /\ \E who \in Members : MuseResume(who)
    \/ op = NoOp /\ \E who \in Members, volume \in Volumes : MuseVolume(who, volume)
    \/ op = NoOp /\ \E who \in Members, segments \in ShortTimes : MuseSeek(who, segments)
    \/ ~player.paused /\ NodeFinish
    \/ HandleTrackEnd

SpecControls == InitControls /\ [][NextControls]_vars

----------------------------------------------------------------------------
(* Sessions of commands.py come and go: connect, stop, and play's hook     *)
(* that connects; beside them the player of another guild.                 *)

Channels == {Here, There}

\* MusicPlayer(): a player of its own, with a MusicQueue of its own
MusicPlayer_shared == [queue |-> queue, current |-> None, node |-> None, events |-> <<>>]
MusicPlayer == [queue |-> NewQueue, current |-> None, node |-> None, events |-> <<>>]

\* who may have the player moved
may_move_anyone(admin) == TRUE
may_move(admin) == admin

\* muse_connect with a channel.connect that makes a player beside the one in
\* place
muse_connect_beside(admin, voice, channel) ==
    IF player.channel # None /\ voice # None
    THEN LET target_channel == IF channel # None THEN channel ELSE voice
         IN IF target_channel # player.channel
            THEN IF may_move(admin)
                 THEN [does |-> "move", channel |-> target_channel, reply |-> "Joined"]
                 ELSE [does |-> "nothing", channel |-> None,
                       reply |-> "Voice player is currently being used in another channel."]
            ELSE [does |-> "nothing", channel |-> None,
                  reply |-> "Voice player already connected to this voice channel."]
    ELSE IF voice = None
    THEN IF admin /\ channel # None
         THEN [does |-> "connect", channel |-> channel, reply |-> "Joined"]
         ELSE [does |-> "nothing", channel |-> None,
               reply |-> "Please join a voice channel and try again."]
    ELSE [does |-> "connect", channel |-> voice, reply |-> "Joined"]

\* muse_connect: what it does (connect, move or nothing), where to, and its
\* reply; voice is the member's channel and channel the one asked for.
\* channel.connect with a player in place raises ClientException.
muse_connect(admin, voice, channel) ==
    IF player.channel # None /\ voice # None
    THEN LET target_channel == IF channel # None THEN channel ELSE voice
         IN IF target_channel # player.channel
            THEN IF may_move(admin)
                 THEN [does |-> "move", channel |-> target_channel, reply |-> "Joined"]
                 ELSE [does |-> "nothing", channel |-> None,
                       reply |-> "Voice player is currently being used in another channel."]
            ELSE [does |-> "nothing", channel |-> None,
                  reply |-> "Voice player already connected to this voice channel."]
    ELSE IF voice = None
    THEN IF admin /\ channel # None
         THEN IF player.channel # None
              THEN [does |-> "nothing", channel |-> None, reply |-> "ClientException"]
              ELSE [does |-> "connect", channel |-> channel, reply |-> "Joined"]
         ELSE [does |-> "nothing", channel |-> None,
               reply |-> "Please join a voice channel and try again."]
    ELSE [does |-> "connect", channel |-> voice, reply |-> "Joined"]

ConnectReply(admin, voice, channel) == muse_connect(admin, voice, channel).reply

MuseConnect(admin, voice, channel) ==
    LET r == muse_connect(admin, voice, channel)
    IN /\ IF r.does = "connect"
          THEN Commit(MusicPlayer) /\ player' = NewPlayer(r.channel)
          ELSE IF r.does = "move"
          THEN Commit(Sess) /\ player' = [player EXCEPT !.channel = r.channel]
          ELSE Commit(Sess) /\ player' = player
       /\ UNCHANGED <<variant, attachment, tree, requester, view, others, ended, waiting, tasks, skips, script>>

\* muse_stop: the player disconnects and the guild has none; its queue object
\* is left as it is, and the play commands still under way hold the player
\* that was
StopReply(who) ==
    IF ~is_in_bot_vc(who[1], who[2]) THEN "NotInBotVoiceChannel"
    ELSE IF player.channel # None THEN "Disconnected from voice channel."
    ELSE "No player to perform this on."

MuseStop(who) ==
    /\ IF is_in_bot_vc(who[1], who[2]) /\ player.channel # None
       THEN /\ Commit([Sess EXCEPT !.current = None, !.node = None, !.events = <<>>])
            /\ player' = NewPlayer(None)
            /\ tasks' = 0
       ELSE Commit(Sess) /\ UNCHANGED <<player, tasks>>
    /\ UNCHANGED <<variant, attachment, tree, requester, view, others, ended, waiting, skips, script>>

\* ensure_voice_hook of muse_play with no player in the guild: the member's
\* channel is connected to, and muse_play goes on to its put
MusePlayConnect(voice, tracks) ==
    /\ player.channel = None
    /\ voice # None
    /\ tasks < MaxTasks
    /\ Commit(put_wait(MusicPlayer, tracks))
    /\ requester' = tag(requester, tracks, Author)
    /\ player' = NewPlayer(voice)
    /\ tasks' = tasks + 1
    /\ UNCHANGED <<variant, attachment, tree, view, others, ended, waiting, skips, script>>

\* the other guild: its members connect a player, queue tracks and stop it
MaxOthers == 1
OthersConnect ==
    /\ ~others.connected
    /\ others' = [connected |-> TRUE, items |-> MusicPlayer.queue.items]
    /\ UNCHANGED <<variant, attachment, tree, requester, player, view, ended, queue, current, node, events, waiting, tasks,
                   skips, script>>

OthersPut(x) ==
    /\ others.connected
    /\ Len(others.items) < MaxOthers
    /\ others' = [others EXCEPT !.items = Append(@, x)]
    /\ UNCHANGED <<variant, attachment, tree, requester, player, view, ended, queue, current, node, events, waiting, tasks,
                   skips, script>>

OthersStop ==
    /\ others.connected
    /\ others' = [others EXCEPT !.connected = FALSE]
    /\ UNCHANGED <<variant, attachment, tree, requester, player, view, ended, queue, current, node, events, waiting, tasks,
                   skips, script>>

InitSessions ==
    /\ variant = "commands.py"
    /\ player = NewPlayer(None)
    /\ queue = NewQueue
    /\ current = None
    /\ node = None
    /\ events = <<>>
    /\ waiting = FALSE
    /\ ended = None
    /\ tree = NoTree
    /\ requester = NoRequester
    /\ attachment = NoFile
    /\ view = NoView
    /\ others = NoOthers
    /\ tasks = 0
    /\ skips = 0
    /\ op = NoOp
    /\ reply = "none"
    /\ old = Snapshot
    /\ script = Off

\* what is kept of a connect or stop command: whether an administrator gave
\* it, how many tracks the guild's last queue held, the channel asked for, and
\* the reply
Asked(admin, channel) == Call("connect", IF admin THEN 1 ELSE 0, Len(queue.items), channel)
Noted(c, r) == op' = c /\ reply' = r /\ old' = old

ConnectSeen(admin, voice, channel) ==
    MuseConnect(admin, voice, channel)
       /\ Noted(Asked(admin, channel), ConnectReply(admin, voice, channel))

\* the sessions of one guild
NextConnect ==
    \/ \E admin \in BOOLEAN, voice, channel \in Channels \cup {None} :
          ConnectSeen(admin, voice, channel)
    \/ \E who \in Members : MuseStop(who) /\ Noted(Call("stop", 0, 0, None), StopReply(who))
    \/ \E voice \in Channels, tracks \in Results : MusePlayConnect(voice, tracks) /\ Unseen
    \/ player.channel # None /\ (\E tracks \in Results : MusePlayPut(tracks)) /\ Unseen
    \/ player.channel # None /\ MusePlayStart /\ Unseen
    \/ NodeFinish
    \/ HandleTrackEnd

SpecConnect == InitSessions /\ [][NextConnect]_vars

\* the sessions of two guilds
NextSessions ==
    \/ NextConnect
    \/ OthersConnect /\ Unseen
    \/ (\E x \in Tracks : OthersPut(x)) /\ Unseen
    \/ OthersStop /\ Unseen

SpecSessions == InitSessions /\ [][NextSessions]_vars

----------------------------------------------------------------------------
(* commands.py: one command given by a member, who may be an administrator, *)
(* in the player's channel, in another one or in none. pause, resume, stop, *)
(* loop and the others carry the check is_in_bot_vc; play and import carry  *)
(* ensure_voice_hook.                                                       *)

\* the command ends in the error named before its callback has run
Raises(c, error) ==
    /\ Seen(c, error)
    /\ UNCHANGED <<variant, attachment, tree, requester, player, view, others, ended, queue,
                   current, node, events, waiting, tasks, skips, script>>

Flag(b) == IF b THEN 1 ELSE 0
By(name, who) == Call(name, Flag(who[1]), 0, who[2])

\* ensure_voice_hook around muse_play: with no player the member's channel is
\* connected to, or NotInVoiceChannel raised; with a player the command runs
PlayBy(who, tracks) ==
    IF player.channel = None
    THEN IF who[2] # None
         THEN MusePlayConnect(who[2], tracks) /\ Seen(By("play", who), "added")
         ELSE Raises(By("play", who), "NotInVoiceChannel")
    ELSE MusePlayPut(tracks) /\ Seen(By("play", who), "added")

\* ensure_voice_hook around muse_import
ImportBy(who, file) ==
    IF player.channel = None
    THEN IF who[2] # None
         THEN /\ Commit(muse_import(MusicPlayer, file))
              /\ player' = NewPlayer(who[2])
              /\ requester' = IF endswith_json(file.name)
                              THEN untagged(requester, converted_tracks(file)) ELSE requester
              /\ script' = Off
              /\ Seen(By("import", who), "connected")
              /\ UNCHANGED <<variant, attachment, tree, view, others, ended, waiting, tasks, skips>>
         ELSE Raises(By("import", who), "NotInVoiceChannel")
    ELSE MuseImport(file) /\ Seen(By("import", who), ImportReply(file))

\* @is_in_bot_vc() before muse_loop
LoopBy(who, loop) ==
    IF is_in_bot_vc(who[1], who[2])
    THEN MuseLoop(loop) /\ Seen(By("loop", who), LoopReply(loop))
    ELSE Raises(By("loop", who), "NotInBotVoiceChannel")

StopBy(who) == MuseStop(who) /\ Seen(By("stop", who), StopReply(who))

\* a command of the member who
CommandBy(who) ==
    \/ \E tracks \in Results : PlayBy(who, tracks)
    \/ \E file \in ImportFiles : ImportBy(who, file)
    \/ \E loop \in LoopOptions : LoopBy(who, loop)
    \/ StopBy(who)
    \/ MusePause(who)
    \/ MuseResume(who)

\* a session as InitControls has it, and a file exported before
InitMembers ==
    /\ variant = "commands.py"
    /\ \/ player = NewPlayer(None) /\ queue = NewQueue /\ current = None
       \/ player = NewPlayer(Here) /\ queue = NewQueue /\ current = None
       \/ \E x \in Tracks, Q \in QueuesOf(1), paused \in BOOLEAN :
             /\ player = [NewPlayer(Here) EXCEPT !.paused = paused]
             /\ queue = [Q EXCEPT !.loaded = x, !.history = <<x>>]
             /\ current = x
    /\ node = current
    /\ events = <<>>
    /\ waiting = FALSE
    /\ ended = None
    /\ tree = NoTree
    /\ requester = NoRequester
    /\ \E Q \in QueuesOf(1) : attachment = export_file(Q)
    /\ view = NoView
    /\ others = NoOthers
    /\ tasks = 0
    /\ skips = 0
    /\ op = NoOp
    /\ reply = "none"
    /\ old = Snapshot
    /\ script = Off

NextMembers ==
    \/ op = NoOp /\ \E who \in Members : CommandBy(who)
    \/ MusePlayStart /\ Unseen
    \/ ~player.paused /\ NodeFinish
    \/ HandleTrackEnd

SpecMembers == InitMembers /\ [][NextMembers]_vars

----------------------------------------------------------------------------
(* commands.py: the commands that edit the queue of a session that plays a  *)
(* track: queue remove, queue clear, move and shuffle.                      *)

\* queue_remove with vc.queue.delete(entry)
queue_remove_at_entry(Q, entry) ==
    IF entry > Len(Q.items) \/ entry < 1
    THEN [Q |-> Q, reply |-> "That track does not exist and cannot be removed."]
    ELSE [Q |-> [Q EXCEPT !.items = DelAt(@, entry)], reply |-> "Removed"]

\* queue_remove: vc.queue.delete(entry - 1)
queue_remove(Q, entry) ==
    IF entry > Len(Q.items) \/ entry < 1
    THEN [Q |-> Q, reply |-> "That track does not exist and cannot be removed."]
    ELSE [Q |-> [Q EXCEPT !.items = DelAt(@, entry - 1)], reply |-> "Removed"]

\* queue_clear: vc.queue.clear()
queue_clear(Q) ==
    IF Q.items # <<>>
    THEN [Q |-> [Q EXCEPT !.items = <<>>], reply |-> "Queue cleared."]
    ELSE [Q |-> Q, reply |-> "The queue is already empty."]

\* vc.queue.shuffle(): the items in any order
Shuffles(items) == {[i \in 1..Len(items) |-> items[f[i]]] : f \in Permutations(1..Len(items))}

QueueEdit(r, c) ==
    /\ player.channel # None
    /\ queue' = r.Q
    /\ Seen(c, r.reply)
    /\ script' = Off
    /\ UNCHANGED <<variant, attachment, tree, requester, player, view, others, ended, current,
                   node, events, waiting, tasks, skips>>

QueueRemove(entry) == QueueEdit(queue_remove(queue, entry), Call("remove", entry, 0, None))
QueueClear == QueueEdit(queue_clear(queue), Call("clear", 0, 0, None))
MuseShuffle ==
    IF queue.items # <<>>
    THEN \E t \in Shuffles(queue.items) :
            QueueEdit([Q |-> [queue EXCEPT !.items = t], reply |-> "Shuffled the queue."],
                      Call("shuffle", 0, 0, None))
    ELSE QueueEdit([Q |-> queue, reply |-> "There's nothing in the queue to shuffle right now."],
                   Call("shuffle", 0, 0, None))

InitEdits == InitSkip /\ variant = "commands.py"

\* a command that edits the queue
Edits ==
    \/ \E entry \in Positions : QueueRemove(entry)
    \/ QueueClear
    \/ \E before, after \in Positions : MoveSeen(before, after)
    \/ MuseShuffle

\* one command in a behaviour, given at any moment of the session
NextEdits ==
    \/ op = NoOp /\ \E entry \in Positions : QueueRemove(entry)
    \/ op = NoOp /\ QueueClear
    \/ op = NoOp /\ \E before, after \in Positions : MoveSeen(before, after)
    \/ op = NoOp /\ MuseShuffle
    \/ NodeFinish
    \/ HandleTrackEnd

SpecEdits == InitEdits /\ [][NextEdits]_vars

----------------------------------------------------------------------------
(* Loop and skip commands in any number and order, given to a session that *)
(* plays a track; of each the loop modes it found are kept.                *)

Found(name, x) == Call(name, Flag(LoopOne(queue)), Flag(LoopAll(queue)), x)

LoopNoted(loop) == MuseLoop(loop) /\ Noted(Found("loop", loop), LoopReply(loop))
SkipNoted(index) == MuseSkip(index) /\ Noted(Found("skip", None), SkipReply(index))

NextLoops ==
    \/ \E loop \in LoopOptions : LoopNoted(loop)
    \/ \E index \in Positions : SkipNoted(index)
    \/ MuseSkipAgain /\ Unseen
    \/ NodeFinish
    \/ HandleTrackEnd

SpecLoops == InitSkip /\ [][NextLoops]_vars

----------------------------------------------------------------------------
(* MusicQueueView: the pages of a queue, the page the view is on, its      *)
(* buttons, and the page its message shows.                                *)

PageButtons ==
    {"turn_to_first", "turn_to_previous", "enter_page", "turn_to_next", "turn_to_last"}

\* the page size the queue command asks for
PerPage == 10

\* pages_content[i : i + per] for i in range(0, len(pages_content), per), the
\* entries being numbered 1 to n
RECURSIVE range(_, _, _)
range(start, stop, step) ==
    IF start >= stop THEN <<>> ELSE <<start>> \o range(start + step, stop, step)
Slice_short(s, i, j) == SubSeq(s, i + 1, Min(j - 1, Len(s)))
Slice(s, i, j) == SubSeq(s, i + 1, Min(j, Len(s)))
Pages(n, per) ==
    LET pages_content == [j \in 1..n |-> j]
        starts == range(0, n, per)
    IN [k \in 1..Len(starts) |-> Slice(pages_content, starts[k], starts[k] + per)]

total_pages(v) == Len(v.pages)

add_page_buttons(v) ==
    IF total_pages(v) > 2 THEN PageButtons \cup {"quit_view"}
    ELSE IF total_pages(v) > 1 THEN {"turn_to_previous", "turn_to_next", "quit_view"}
    ELSE {"quit_view"}

disable_page_buttons_stale(v) == v.disabled
disable_page_buttons(v) ==
    IF total_pages(v) <= 1 THEN PageButtons
    ELSE (IF v.page_index = 0 THEN {"turn_to_first", "turn_to_previous"} ELSE {})
         \cup (IF v.page_index = total_pages(v) - 1 THEN {"turn_to_next", "turn_to_last"}
               ELSE {})

\* format_page: the page it makes, Off for "The queue is empty."; no page when
\* pages[page_index] raises IndexError
format_page(v) ==
    IF total_pages(v) = 0 THEN [ok |-> TRUE, page |-> Off]
    ELSE IF PyValid(v.pages, v.page_index)
    THEN [ok |-> TRUE, page |-> PyIndex(v.pages, v.page_index)]
    ELSE [ok |-> FALSE, page |-> Off]

get_first_page(v) == format_page([v EXCEPT !.page_index = 0]).page

\* the view as the queue command makes it and sends it
FirstPageIndex == 1
MusicQueueView(n, per) ==
    LET v0 == [pages |-> Pages(n, per), page_index |-> FirstPageIndex, shown |-> Off,
               disabled |-> {"turn_to_first", "turn_to_previous", "enter_page"},
               items |-> {}, finished |-> FALSE, author_id |-> Author, modal |-> FALSE]
        v1 == [v0 EXCEPT !.items = add_page_buttons(v0)]
        v2 == [v1 EXCEPT !.disabled = disable_page_buttons(v1)]
    IN [v2 EXCEPT !.shown = get_first_page(v2)]

\* update_page: the page is made, the buttons are set, the message is edited
update_page(v) ==
    IF format_page(v).ok
    THEN [v EXCEPT !.shown = format_page(v).page, !.disabled = disable_page_buttons(v)]
    ELSE v

turn_to_first(v) == update_page([v EXCEPT !.page_index = 0])
turn_to_previous(v) == update_page([v EXCEPT !.page_index = @ - 1])
turn_to_next(v) == update_page([v EXCEPT !.page_index = @ + 1])
turn_to_last(v) == update_page([v EXCEPT !.page_index = total_pages(v) - 1])

\* int(value) of a text of digits with or without a minus sign before them;
\* any other text raises ValueError
Digit(c) ==
    IF c = "0" THEN 0 ELSE IF c = "1" THEN 1 ELSE IF c = "2" THEN 2 ELSE IF c = "3" THEN 3
    ELSE IF c = "4" THEN 4 ELSE Off
RECURSIVE Digits(_)
Digits(t) ==
    IF t = <<>> THEN 0 ELSE Digits(SubSeq(t, 1, Len(t) - 1)) * 10 + Digit(t[Len(t)])
AllDigits(t) == t # <<>> /\ \A i \in 1..Len(t) : Digit(t[i]) # Off
int(t) ==
    IF AllDigits(t) THEN [ok |-> TRUE, n |-> Digits(t)]
    ELSE IF t # <<>> /\ t[1] = "-" /\ AllDigits(Tail(t)) THEN [ok |-> TRUE, n |-> 0 - Digits(Tail(t))]
    ELSE [ok |-> FALSE, n |-> 0]

\* what a member types into the modal
MaxText == 2
Texts == SeqUpTo({"0", "1", "2", "3", "4", "-", "x"}, MaxText)

enter_page(v, value) ==
    IF ~int(value).ok THEN v
    ELSE LET temp_new_page == int(value).n - 1
         IN IF temp_new_page >= total_pages(v) \/ temp_new_page < 0
               \/ v.page_index = temp_new_page
            THEN v
            ELSE update_page([v EXCEPT !.page_index = temp_new_page])

\* a button can be pressed when the view has it, enabled, and has not stopped
Pressable(b) == ~view.finished /\ b \in view.items /\ b \notin view.disabled

Press(b, v, a, r) ==
    /\ Pressable(b)
    /\ view' = v
    /\ Noted(Call(b, a, view.page_index, None), r)
    /\ UNCHANGED <<variant, attachment, tree, requester, player, others, ended, queue, current, node, events, waiting, tasks,
                   skips, script>>

TurnToFirst == Press("turn_to_first", turn_to_first(view), 0, "none")
TurnToPrevious == Press("turn_to_previous", turn_to_previous(view), 0, "none")
TurnToNext == Press("turn_to_next", turn_to_next(view), 0, "none")
TurnToLast == Press("turn_to_last", turn_to_last(view), 0, "none")
EnterPage(value) ==
    Press("enter_page", enter_page(view, value), int(value).n,
          IF int(value).ok THEN "none" ELSE "ValueError")
QuitView == Press("quit_view", [view EXCEPT !.finished = TRUE], 0, "none")

\* on_timeout: the buttons are taken away and the view stops
OnTimeout ==
    /\ ~view.finished
    /\ view' = [view EXCEPT !.items = {}, !.finished = TRUE]
    /\ Noted(Call("on_timeout", 0, view.page_index, None), "none")
    /\ UNCHANGED <<variant, attachment, tree, requester, player, others, ended, queue, current, node, events, waiting, tasks,
                   skips, script>>

\* the queue command shows a queue of up to MaxItems tracks
MaxItems == 23
InitView ==
    /\ variant = "utils"
    /\ \E n \in 0..MaxItems : view = MusicQueueView(n, PerPage)
    /\ player = NewPlayer(Here)
    /\ queue = NewQueue
    /\ current = None
    /\ node = None
    /\ events = <<>>
    /\ waiting = FALSE
    /\ ended = None
    /\ tree = NoTree
    /\ requester = NoRequester
    /\ attachment = NoFile
    /\ others = NoOthers
    /\ tasks = 0
    /\ skips = 0
    /\ op = NoOp
    /\ reply = "none"
    /\ old = Snapshot
    /\ script = Off

NextView ==
    \/ TurnToFirst
    \/ TurnToPrevious
    \/ \E value \in Texts : EnterPage(value)
    \/ TurnToNext
    \/ TurnToLast
    \/ QuitView
    \/ OnTimeout

SpecView == InitView /\ [][NextView]_vars

----------------------------------------------------------------------------
(* The view among the members of a guild: every press goes through         *)
(* interaction_check, and the page modal is opened by one interaction and  *)
(* submitted by a later one.                                               *)

Users == {Author, "other"}

interaction_check_anyone(v, user) == TRUE
interaction_check(v, user) == v.author_id = user

is_finished_never(v) == FALSE
is_finished(v) == v.finished

\* enter_page up to its wait for the modal
OpenModal == Press("enter_page", [view EXCEPT !.modal = TRUE], 0, "none")

\* enter_page from the return of modal.wait() on
SubmitModal(value) ==
    /\ view.modal
    /\ view' = IF is_finished(view) THEN [view EXCEPT !.modal = FALSE]
               ELSE [enter_page(view, value) EXCEPT !.modal = FALSE]
    /\ Noted(Call("on_submit", int(value).n, view.page_index, None),
             IF int(value).ok THEN "none" ELSE "ValueError")
    /\ UNCHANGED <<variant, attachment, tree, requester, player, others, ended, queue, current, node, events, waiting, tasks,
                   skips, script>>

\* the callback of a button
Callback(b) ==
    IF b = "turn_to_first" THEN TurnToFirst
    ELSE IF b = "turn_to_previous" THEN TurnToPrevious
    ELSE IF b = "enter_page" THEN OpenModal
    ELSE IF b = "turn_to_next" THEN TurnToNext
    ELSE IF b = "turn_to_last" THEN TurnToLast
    ELSE QuitView

\* a member presses a button of the view
Interact(user, b) ==
    IF interaction_check(view, user) THEN Callback(b)
    ELSE /\ Pressable(b)
         /\ Noted(Call(b, 0, view.page_index, None), "You cannot interact with this view.")
         /\ UNCHANGED <<variant, attachment, tree, requester, player, view, others, ended, queue, current, node, events,
                        waiting, tasks, skips, script>>

NextViewers ==
    \/ \E user \in Users, b \in PageButtons \cup {"quit_view"} : Interact(user, b)
    \/ \E value \in Texts : SubmitModal(value)
    \/ OnTimeout

SpecViewers == InitView /\ [][NextViewers]_vars

----------------------------------------------------------------------------
(* A view is made of any number of entries with any page size.             *)

MaxPer == 12

InitPages ==
    /\ variant = "utils"
    /\ view = NoView
    /\ player = NewPlayer(Here)
    /\ queue = NewQueue
    /\ current = None
    /\ node = None
    /\ events = <<>>
    /\ waiting = FALSE
    /\ ended = None
    /\ tree = NoTree
    /\ requester = NoRequester
    /\ attachment = NoFile
    /\ others = NoOthers
    /\ tasks = 0
    /\ skips = 0
    /\ op = NoOp
    /\ reply = "none"
    /\ old = Snapshot
    /\ script = Off

Construct(n, per) ==
    /\ op = NoOp
    /\ view' = MusicQueueView(n, per)
    /\ Noted(Call("MusicQueueView", n, per, None), "none")
    /\ UNCHANGED <<variant, attachment, tree, requester, player, others, ended, queue, current, node, events, waiting, tasks,
                   skips, script>>

NextPages == \E n \in 0..MaxItems, per \in 1..MaxPer : Construct(n, per)

SpecPages == InitPages /\ [][NextPages]_vars

----------------------------------------------------------------------------
(* What an interaction is sent by the command it invokes: the responses on  *)
(* the path the handler takes, response.send_message or response.defer      *)
(* first and followup.send after it, and what the tree's on_error sends     *)
(* when the command raises.                                                 *)

MusicBotErrors ==
    {"NotInVoiceChannel", "NotInBotVoiceChannel", "InvalidShortTimeFormat", "WavelinkSearchError"}

\* on_error of bot.py: error = getattr(error, "__cause__", error), which is
\* None for an error raised as it is, a check's among them
on_error_3(cause, is_done) ==
    IF cause \in MusicBotErrors
    THEN <<IF is_done THEN "followup.send" ELSE "send_message">>
    ELSE <<>>

\* musicbot.py has no on_error of its own: the tree's default logs the error
on_error(cause, is_done) == IF Wavelink2 THEN <<>> ELSE on_error_3(cause, is_done)

\* queue_get of commands.py: with no player it sends nothing
queue_get ==
    IF player.channel # None
    THEN [view |-> MusicQueueView(Len(queue.items), PerPage), answers |-> <<"send_message">>]
    ELSE [view |-> view, answers |-> <<>>]

\* muse_resume of musicbot.py: a player that is not paused is sent nothing
muse_resume_1 ==
    IF player.channel # None
    THEN IF player.paused
         THEN [player |-> pause(FALSE), answers |-> <<"send_message">>]
         ELSE [player |-> player, answers |-> <<>>]
    ELSE [player |-> player, answers |-> <<"send_message">>]

Initial(answers) ==
    Cardinality({i \in 1..Len(answers) : answers[i] \in {"send_message", "defer"}})

Answered(name, answers) ==
    Seen(Call(name, Initial(answers), Len(answers), None),
         IF answers = <<>> THEN "nothing sent" ELSE answers[1])

QueueGetCmd ==
    /\ variant = "commands.py"
    /\ view' = queue_get.view
    /\ Answered("queue get", queue_get.answers)
    /\ UNCHANGED <<variant, attachment, tree, requester, player, others, ended, queue, current,
                   node, events, waiting, tasks, skips, script>>

ResumeCmd(who) ==
    /\ LET r == IF ~is_in_bot_vc(who[1], who[2])
                THEN [player |-> player, answers |-> on_error(None, FALSE)]
                ELSE IF Wavelink2 THEN muse_resume_1
                ELSE [player |-> muse_resume.player, answers |-> <<"send_message">>]
       IN player' = r.player /\ Answered("resume", r.answers)
    /\ UNCHANGED <<variant, attachment, tree, requester, view, others, ended, queue, current,
                   node, events, waiting, tasks, skips, script>>

\* muse_play of commands.py: the hook, then defer, put_wait and followup.send
PlayCmd(who, tracks) ==
    /\ variant = "commands.py"
    /\ IF player.channel = None
       THEN IF who[2] # None
            THEN MusePlayConnect(who[2], tracks) /\ Answered("play", <<"defer", "followup.send">>)
            ELSE Raises(Call("play", Initial(on_error(None, FALSE)), 0, None), "nothing sent")
       ELSE MusePlayPut(tracks) /\ Answered("play", <<"defer", "followup.send">>)

InitAnswers ==
    /\ variant \in {"musicbot.py", "commands.py"}
    /\ \/ player = NewPlayer(None) /\ queue = NewQueue /\ current = None
       \/ player = NewPlayer(Here) /\ queue = NewQueue /\ current = None
       \/ \E x \in Tracks, Q \in QueuesOf(1), paused \in BOOLEAN :
             /\ player = [NewPlayer(Here) EXCEPT !.paused = paused]
             /\ queue = [Q EXCEPT !.loaded = x, !.history = <<x>>]
             /\ current = x
    /\ node = current
    /\ events = <<>>
    /\ waiting = FALSE
    /\ ended = None
    /\ tree = NoTree
    /\ requester = NoRequester
    /\ attachment = NoFile
    /\ view = NoView
    /\ others = NoOthers
    /\ tasks = 0
    /\ skips = 0
    /\ op = NoOp
    /\ reply = "none"
    /\ old = Snapshot
    /\ script = Off

NextAnswers ==
    \/ op = NoOp /\ QueueGetCmd
    \/ op = NoOp /\ \E who \in Members : ResumeCmd(who)
    \/ op = NoOp /\ \E who \in Members, tracks \in Results : PlayCmd(who, tracks)
    \/ MusePlayStart /\ Unseen
    \/ ~player.paused /\ NodeFinish
    \/ HandleTrackEnd

SpecAnswers == InitAnswers /\ [][NextAnswers]_vars

----------------------------------------------------------------------------
(* Startup: setup_hook adds the commands to the tree and                   *)
(* sync_if_commands_updated publishes them when their hash is not the one  *)
(* in the hash file.                                                       *)

\* the commands a build of the bot may register, by name and description
Names == {"play", "stop"}
Descriptions == {"d1", "d2"}
Rank(name) == IF name = "play" THEN 1 ELSE 2
Code(c) == 2 * Rank(c.name) + (IF c.description = "d1" THEN 0 ELSE 1)

\* APP_COMMANDS in any order: commands of different names
Catalogs ==
    {t \in SeqUpTo([name : Names, description : Descriptions], Cardinality(Names)) :
        \A i, j \in 1..Len(t) : i # j => t[i].name # t[j].name}

\* sorted(commands, key=qualified_name), by insertion from the left
RECURSIVE Insert(_, _)
Insert(c, t) ==
    IF t = <<>> THEN <<c>>
    ELSE IF Rank(c.name) < Rank(Head(t).name) THEN <<c>> \o t
    ELSE <<Head(t)>> \o Insert(c, Tail(t))
RECURSIVE sorted(_)
sorted_unsorted(t) == t
sorted(t) == IF t = <<>> THEN <<>> ELSE Insert(t[Len(t)], sorted(SubSeq(t, 1, Len(t) - 1)))

\* the payload that is dumped and hashed
Payload(t) == sorted(t)

\* xxh3_64_digest(..., seed=1): a digest of fixed length, here two bytes of
\* ByteSize values each
ByteSize == 4
RECURSIVE Mix(_, _)
Mix(h, p) == IF p = <<>> THEN h ELSE Mix((h * 5 + Code(Head(p))) % (ByteSize * ByteSize), Tail(p))
digest(p) == LET h == Mix(1, p) IN <<h \div ByteSize, h % ByteSize>>
get_hash(t) == digest(Payload(t))

\* fp.seek(0); fp.write(b) on a file opened "r+b": the bytes are written over
\* the first of the file and the rest stays
Overwrite(file, b) == b \o SubSeq(file, Len(b) + 1, Len(file))

\* the file as the with block leaves it when self.sync() raises
closed_on_raise_written(file, tree_hash) == Overwrite(file, tree_hash)
closed_on_raise(file, tree_hash) == file

\* what the hash file may hold at a startup: nothing, a digest, or fewer or
\* more bytes than a digest
Files ==
    {<<>>, <<0>>, <<0, 0, 0>>} \cup {<<a, b>> : a, b \in 0..(ByteSize - 1)}

MaxRuns == 2

InitSync ==
    /\ variant = "bot.py"
    /\ \E t \in Catalogs, exists \in BOOLEAN, file \in Files :
          /\ exists \/ file = <<>>
          /\ tree = [NoTree EXCEPT !.commands = t, !.exists = exists, !.file = file,
                                   !.pc = "setup_hook", !.runs = 1]
    /\ requester = NoRequester
    /\ attachment = NoFile
    /\ player = NewPlayer(Here)
    /\ view = NoView
    /\ others = NoOthers
    /\ queue = NewQueue
    /\ current = None
    /\ node = None
    /\ events = <<>>
    /\ waiting = FALSE
    /\ ended = None
    /\ tasks = 0
    /\ skips = 0
    /\ op = NoOp
    /\ reply = "none"
    /\ old = Snapshot
    /\ script = Off

Rest ==
    UNCHANGED <<variant, attachment, requester, player, view, others, ended, queue, current, node, events, waiting, tasks,
                skips, op, reply, old, script>>

\* tree_hash = await self.get_hash()
GetHash ==
    /\ tree.pc = "setup_hook"
    /\ tree' = [tree EXCEPT !.tree_hash = get_hash(tree.commands), !.pc = "get_hash"]
    /\ Rest

\* data != tree_hash
differs_always(data, tree_hash) == TRUE
differs(data, tree_hash) == data # tree_hash

\* resolve_path_with_links touches the file when there is none; the file is
\* opened and read, and when it holds the hash the method is done
OpenAndRead ==
    /\ tree.pc = "get_hash"
    /\ tree' = [tree EXCEPT !.exists = TRUE, !.data = tree.file,
                            !.pc = IF differs(tree.file, tree.tree_hash) THEN "sync" ELSE "done"]
    /\ Rest

\* await self.sync() returns: the hash is written at the start of the file
SyncDone ==
    /\ tree.pc = "sync"
    /\ tree' = [tree EXCEPT !.log = @ \o <<"sync", "write">>,
                            !.file = Overwrite(@, tree.tree_hash), !.pc = "done"]
    /\ Rest

\* await self.sync() raises: the with block closes the file and setup_hook
\* ends with the exception
SyncRaises ==
    /\ tree.pc = "sync"
    /\ tree' = [tree EXCEPT !.log = Append(@, "sync raised"),
                            !.file = closed_on_raise(@, tree.tree_hash), !.pc = "raised"]
    /\ Rest

\* the bot is started again, with the same build or another
Startup(t) ==
    /\ tree.pc \in {"done", "raised"}
    /\ tree.runs < MaxRuns
    /\ tree' = [tree EXCEPT !.commands = t, !.pc = "setup_hook", !.tree_hash = <<>>,
                            !.data = <<>>, !.log = <<>>, !.runs = @ + 1, !.last = tree.pc,
                            !.same = t = tree.commands]
    /\ Rest

NextSync ==
    \/ GetHash
    \/ OpenAndRead
    \/ SyncDone
    \/ SyncRaises
    \/ \E t \in Catalogs : Startup(t)

SpecSync == InitSync /\ [][NextSync]_vars

----------------------------------------------------------------------------
(* Properties of MusicQueue's operations, under SpecQueue *)

Count(s, x) == Cardinality({i \in 1..Len(s) : s[i] = x})
SameTracks(s, t) == \A x \in Tracks : Count(s, x) = Count(t, x)
InRange(i, s) == 0 <= i /\ i < Len(s)
IndexOps == {"put_at", "skip_to", "swap", "move"}
TwoIndexOps == {"swap", "move"}

\* C1: skip_to(index) with 0 <= index < length leaves exactly the elements
\* from index on, in their order, the one formerly at index at the front;
\* skip_to(length) raises and leaves the queue as it was.
C1_SkipToDiscardsBefore ==
    op.name = "skip_to" =>
        /\ InRange(op.a, old.items) =>
               /\ reply = "returned"
               /\ queue.items = SubSeq(old.items, op.a + 1, Len(old.items))
        /\ op.a = Len(old.items) =>
               /\ reply = "IndexError"
               /\ queue.items = old.items

\* C2: every index-taking operation raises for every index outside
\* 0..length-1, and whenever it raises the queue is as it was.
C2_OutOfRangeRaises ==
    op.name \in IndexOps =>
        /\ ~InRange(op.a, old.items) => reply = "IndexError"
        /\ (op.name \in TwoIndexOps /\ ~InRange(op.b, old.items)) => reply = "IndexError"
        /\ reply = "IndexError" => queue.items = old.items

\* C3: for valid before # after, move(before, after) keeps the length and the
\* multiset of tracks, and gives the sequence got by removing the element at
\* before and inserting it at position after of what remains; the other
\* tracks keep their relative order.
C3_MoveReinserts ==
    (op.name = "move" /\ InRange(op.a, old.items)
        /\ InRange(op.b, old.items) /\ op.a # op.b) =>
        /\ reply = "returned"
        /\ Len(queue.items) = Len(old.items)
        /\ SameTracks(queue.items, old.items)
        /\ queue.items = InsAt(DelAt(old.items, op.a), op.b, old.items[op.a + 1])
        /\ DelAt(queue.items, op.b) = DelAt(old.items, op.a)

\* a move towards the back of a full-length queue that changed the order
C3_Witness ==
    /\ op.name = "move" /\ reply = "returned"
    /\ Len(old.items) = MaxQueue
    /\ 0 <= op.a /\ op.a < op.b /\ op.b < Len(old.items)
    /\ queue.items # old.items
    /\ queue.items[op.b + 1] = old.items[op.a + 1]

----------------------------------------------------------------------------
(* Properties of the move, loop and skip commands *)

\* C4: whenever muse_move reports success, the track that was at position
\* `before` is at position `after`, and the queue is what it was with that one
\* track taken out and put back there: same length, same tracks, the others in
\* their order, for after > before as for after < before.
C4_MoveCommandMoves ==
    (op.name = "move" /\ reply = "moved") =>
        /\ 1 <= op.a /\ op.a <= Len(old.items)
        /\ 1 <= op.b /\ op.b <= Len(old.items)
        /\ queue.items = InsAt(DelAt(old.items, op.a - 1), op.b - 1, old.items[op.a])

\* C5: whenever muse_move answers that the indices are invalid, the queue holds
\* the tracks it held before the command, in the same order.
C5_InvalidMoveKeepsQueue ==
    (op.name = "move" /\ reply = "invalid") => queue.items = old.items

\* C9: muse_loop puts the queue in the mode its option names: "All Tracks" the
\* mode that loops over the whole queue, "Current Track" the mode that replays
\* the playing track, "Off" the normal mode.
C9_LoopCommandSetsMode ==
    op.name = "loop" =>
        /\ op.x = "All Tracks" => LoopAll(queue) /\ ~LoopOne(queue)
        /\ op.x = "Current Track" => LoopOne(queue) /\ ~LoopAll(queue)
        /\ op.x = "Off" => ~LoopOne(queue) /\ ~LoopAll(queue)

\* C6: once muse_skip(index), 1 <= index <= queue length, is over and the
\* notifications of the backend are handled, the current track is the one that
\* was at position index, and the queue holds the tracks that were after it, in
\* their order.
C6_SkipReachesIndex ==
    (/\ op.name = "skip" /\ 1 <= op.a /\ op.a <= Len(old.items)
     /\ skips = 0 /\ events = <<>>) =>
        /\ current = old.items[op.a]
        /\ queue.items = SubSeq(old.items, op.a + 1, Len(old.items))

----------------------------------------------------------------------------
(* Properties of the session *)

\* C7: from a new session in normal mode, once A, B, C are queued and the play
\* command is done the player plays A; the next track end makes B the current
\* track and leaves C alone in the queue; once the loop-one mode is selected,
\* every further track end leaves B the current track and C in the queue.
C7_Scenario ==
    /\ script = 2 => current = "A" /\ (node = "A" \/ events = <<"finished">>)
    /\ script = 3 => current = "B" /\ queue.items = <<"C">>
    /\ script \in {4, 5} => current = "B" /\ queue.items = <<"C">>

C7_Witness ==
    script = 5 /\ events = <<>> /\ node = "B" /\ ended = "B" /\ LoopOne(queue)

\* what the handling of a track end found and what it left
Fin == current
Ends == HandleTrackEnd /\ Head(events) # "replaced"

\* C8, as stated: in loop-one mode the handler replays the current track and
\* leaves the queue as it is; in loop-all mode it puts the finished track at
\* the back of the queue and takes the front; in normal mode it takes the
\* front of the queue; with no next track the current track is empty.
C8_AsStated ==
    [][Ends =>
        /\ (LoopOne(queue) /\ ~LoopAll(queue)) =>
              current' = Fin /\ queue'.items = queue.items
        /\ (LoopAll(queue) /\ ~LoopOne(queue)) =>
              /\ current' = Head(Append(queue.items, Fin))
              /\ queue'.items = Tail(Append(queue.items, Fin))
        /\ (~LoopOne(queue) /\ ~LoopAll(queue) /\ queue.items # <<>>) =>
              current' = Head(queue.items) /\ queue'.items = Tail(queue.items)
        /\ (~LoopOne(queue) /\ ~LoopAll(queue) /\ queue.items = <<>>) =>
              current' = None]_vars

\* the queue the handler takes its track from in loop-all mode
Refilled(Q) == IF Q.items = <<>> THEN Q.history ELSE Q.items

\* C8, amended: in loop-one mode, with a loaded track, the handler replays it
\* and leaves the queue as it is; otherwise it takes the front of the queue,
\* in loop-all mode after the history has been put back into an empty queue
\* (the finished track is not put at the back of the queue); with no track to
\* take, the current track is empty.
C8_HandlerByMode ==
    [][Ends =>
        IF LoopOne(queue) /\ queue.loaded # None
        THEN current' = queue.loaded /\ queue'.items = queue.items
        ELSE LET from == IF LoopAll(queue) THEN Refilled(queue) ELSE queue.items
             IN IF from # <<>>
                THEN current' = Head(from) /\ queue'.items = Tail(from)
                ELSE current' = None /\ queue'.items = <<>>]_vars

C8_Witness ==
    /\ LoopAll(queue) /\ ended = "C" /\ current = "A" /\ node = "A"
    /\ queue.items = <<"B", "C">> /\ queue.history = <<"A">>

Given(Q) == Q.history \o Q.items

C11_WaitingHandlerAndPlay ==
    /\ \A i \in 1..Len(events) : events[i] # "replaced"
    /\ current # None => current = queue.history[Len(queue.history)]
    /\ reply # "QueueEmpty"

\* the playback state of a session
PlaybackState ==
    IF player.paused THEN "Paused" ELSE IF current # None THEN "Playing" ELSE "Idle"

\* C12: whenever the playback state is Playing or Paused there is a current
\* track; the pause command on an Idle session changes nothing, and so does not
\* make it Paused, and replies that there is no track to pause.
C12_PausedHasCurrent ==
    /\ PlaybackState # "Idle" => current # None
    /\ (op.name = "pause" /\ reply # "NotInBotVoiceChannel" /\ old.player.channel # None
          /\ old.current = None /\ ~old.player.paused)
       => (player = old.player /\ reply \notin {"Paused playback.", "Resumed playback."})

\* C13: the volume command with a value outside 0..1000 is refused: the player
\* is as it was, its volume not brought into the range and nothing sent to the
\* backend, and a reply that the volume was changed names the volume in effect.
C13_VolumeOutOfRangeRejected ==
    /\ (op.name = "volume" /\ op.b = 1 /\ reply # "NotInBotVoiceChannel"
          /\ old.player.channel # None /\ op.a \notin 0..MaxVolume)
       => (player = old.player /\ reply # "Changed volume to")
    /\ (op.name = "volume" /\ reply = "Changed volume to") => player.volume = op.a

SeekErrors ==
    {"NotInBotVoiceChannel", "No player to perform this on.",
     "No track currently playing to seek within.", "This track doesn't allow seeking, sorry.",
     "The track length doesn't support that position."}

Requested(voice, channel) == IF channel # None THEN channel ELSE voice

Refused(admin, voice, channel) ==
    /\ player.channel # None
    /\ ~admin
    /\ Requested(voice, channel) # None
    /\ Requested(voice, channel) # player.channel
    /\ ConnectSeen(admin, voice, channel)

\* C15 as stated: every connect command of a member who is no administrator,
\* for another channel than the player's, is answered with the report that the
\* player is in use in another channel.
C15_AsStated ==
    [][\A admin \in BOOLEAN, voice, channel \in Channels \cup {None} :
          Refused(admin, voice, channel)
          => reply' = "Voice player is currently being used in another channel."]_vars

\* C15: with a player in a channel, the connect command of a member who is no
\* administrator, for another channel, leaves the player's channel, the queue
\* and the playback as they were; it reports that the player is in use in
\* another channel, or, when the member is in no voice channel, asks the member
\* to join one.  The player is moved only for an administrator.
C15_ConnectRefusesOthers ==
    [][\A admin \in BOOLEAN, voice, channel \in Channels \cup {None} :
          /\ Refused(admin, voice, channel)
             => (/\ UNCHANGED <<player, queue, current, node, events>>
                 /\ reply' = IF voice = None
                             THEN "Please join a voice channel and try again."
                             ELSE "Voice player is currently being used in another channel.")
          /\ (/\ player.channel # None
              /\ player'.channel # player.channel
              /\ ConnectSeen(admin, voice, channel))
             => admin]_vars

C15_Witness ==
    /\ op.name = "connect"
    /\ op.a = 0
    /\ op.x = There
    /\ reply = "Voice player is currently being used in another channel."
    /\ player.channel = Here
    /\ current # None
    /\ queue.items # <<>>

\* C16: a player that connects has an empty queue and history of its own,
\* whatever the queue of the player before it in the guild held, and no step
\* changes the queues of both guilds: what is done in one guild leaves the
\* other's queue as it was.
C16_QueueOfOneSession ==
    [][/\ (player.channel = None /\ player'.channel # None)
          => (/\ queue' \in {NewQueue} \cup {[NewQueue EXCEPT !.items = t] : t \in Results}
              /\ current' = None)
       /\ (~others.connected /\ others'.connected) => others'.items = <<>>
       /\ others' # others => UNCHANGED <<queue, current, player>>
       /\ queue' # queue => others' = others]_vars

C16_Witness ==
    /\ op.name = "connect"
    /\ reply = "Joined"
    /\ op.b > 0
    /\ player.channel # None
    /\ queue = NewQueue
    /\ others.connected
    /\ others.items # <<>>

\* C17: through any sequence of loop and skip commands the queue is never in
\* both loop modes; a loop command that selects a mode leaves the queue in
\* exactly one, and the one that selects "Off" leaves it in none.
C17_OneLoopMode ==
    /\ [](~(LoopOne(queue) /\ LoopAll(queue)))
    /\ [][\A loop \in LoopOptions :
            LoopNoted(loop)
            => IF loop = "Off"
               THEN ~LoopOne(queue') /\ ~LoopAll(queue')
               ELSE LoopOne(queue') # LoopAll(queue')]_vars

C17_Witness ==
    /\ Wavelink2
    /\ op.name = "loop"
    /\ op.x = "All Tracks"
    /\ op.a = 1
    /\ queue.loop_all
    /\ ~queue.loop
    /\ ended # None

\* C18: the page index of a MusicQueueView is within 0..total_pages - 1, and 0
\* when there are no pages, from the view's construction on and after every
\* press of a button or entry of a page.
C18_PageIndexInRange ==
    IF total_pages(view) = 0 THEN view.page_index = 0
    ELSE view.page_index \in 0..(total_pages(view) - 1)

\* C19: on the view of a queue of 23 tracks, 10 to a page, which has 3 pages,
\* entering 2 puts the view on page index 1 and shows that page, with the
\* first, previous, next and last buttons enabled; entering 0, 4 or a text
\* that is no number leaves the view as it was.
C19_EnterPage ==
    [][\A value \in Texts :
          (EnterPage(value) /\ view.pages = Pages(23, PerPage))
          => /\ total_pages(view) = 3
             /\ (int(value).ok /\ int(value).n = 2)
                => (/\ view'.page_index = 1
                    /\ view'.shown = 1
                    /\ view'.disabled \cap {"turn_to_first", "turn_to_previous",
                                            "turn_to_next", "turn_to_last"} = {})
             /\ (~int(value).ok \/ int(value).n \in {0, 4}) => view' = view]_vars

\* C20: which buttons are disabled depends on the page index and the number of
\* pages alone: with more than one page, first and previous are disabled
\* exactly on page index 0 and next and last exactly on the last page index;
\* with one page or none all five page buttons are disabled.
C20_ButtonsFollowPage ==
    IF total_pages(view) <= 1 THEN PageButtons \subseteq view.disabled
    ELSE /\ \A b \in {"turn_to_first", "turn_to_previous"} :
               b \in view.disabled <=> view.page_index = 0
         /\ \A b \in {"turn_to_next", "turn_to_last"} :
               b \in view.disabled <=> view.page_index = total_pages(view) - 1

C20_Witness ==
    /\ op.name = "turn_to_next"
    /\ total_pages(view) = 3
    /\ view.page_index = 2
    /\ {"turn_to_next", "turn_to_last"} \subseteq view.disabled
    /\ "turn_to_first" \notin view.disabled

\* C21: once a MusicQueueView has ended, by timeout or by quit, no later input
\* changes its page index, its buttons or the page its message shows, a page
\* modal opened before the end and submitted after it included; and an ended
\* view stays ended.
C21_EndedViewStays ==
    [][view.finished => view' = [view EXCEPT !.modal = view'.modal]]_vars

C21_Witness ==
    /\ view.finished
    /\ op.name = "on_submit"
    /\ reply = "none"
    /\ total_pages(view) = 3
    /\ op.a \in 1..3
    /\ op.a # view.page_index + 1

\* C22: a press by a member who is not the author of the view changes nothing
\* of the view, its page index, the page shown and whether it has ended, and
\* is answered with the refusal.
C22_OnlyAuthor ==
    [][\A user \in Users, b \in PageButtons \cup {"quit_view"} :
          (Interact(user, b) /\ user # view.author_id)
          => (view' = view /\ reply' = "You cannot interact with this view.")]_vars

C22_Witness ==
    /\ reply = "You cannot interact with this view."
    /\ op.name = "turn_to_next"
    /\ ~view.finished
    /\ view.page_index = op.b
    /\ "turn_to_next" \notin view.disabled

RECURSIVE Flatten(_)
Flatten(pages) == IF pages = <<>> THEN <<>> ELSE Head(pages) \o Flatten(Tail(pages))

\* C23: a view made of n entries with page size per > 0 has ceil(n / per)
\* pages, none when n is 0; every page but the last holds per entries, the last
\* at least one and at most per; and the pages one after another are the
\* entries in their order.
C23_PagesPartition ==
    op.name = "MusicQueueView"
    => LET n == op.a
           per == op.b
           t == total_pages(view)
       IN /\ t * per >= n
          /\ (t - 1) * per < n
          /\ n = 0 => t = 0
          /\ \A k \in 1..t : Len(view.pages[k]) = IF k < t THEN per ELSE n - (t - 1) * per
          /\ Flatten(view.pages) = [j \in 1..n |-> j]

C23_Witness ==
    /\ op.name = "MusicQueueView"
    /\ op.a = 23
    /\ op.b = 10
    /\ total_pages(view) = 3
    /\ Len(view.pages[3]) = 3

\* C24: a startup publishes the commands if and only if their hash is not what
\* the hash file holds; when it publishes, the publish comes first and the
\* write of the hash after it, and when the file holds the hash nothing is
\* published and nothing is written.
C24_SyncIffDiffers ==
    /\ tree.pc = "done"
       => IF tree.data # tree.tree_hash THEN tree.log = <<"sync", "write">> ELSE tree.log = <<>>
    /\ tree.pc = "raised" => tree.data # tree.tree_hash
    /\ tree.log \in {<<>>, <<"sync", "write">>, <<"sync raised">>}

C24_Witness ==
    /\ tree.pc = "done"
    /\ tree.runs = 2
    /\ tree.last = "done"
    /\ ~tree.same
    /\ tree.log = <<"sync", "write">>
    /\ Len(tree.data) = Len(tree.tree_hash)

\* C25: a startup that finds no hash file, which is then made empty, or a file
\* whose content has not the form of a hash, publishes the commands and leaves
\* the hash in the file.
C25_FirstRunPublishes ==
    (tree.pc = "done" /\ Len(tree.data) # Len(tree.tree_hash))
    => (tree.log = <<"sync", "write">> /\ tree.file = tree.tree_hash)

SameCommands(t, u) == {t[i] : i \in 1..Len(t)} = {u[i] : i \in 1..Len(u)}
OneDescriptionChanged(t, u) ==
    /\ Len(t) = Len(u)
    /\ \A i \in 1..Len(t) : t[i].name = u[i].name
    /\ Cardinality({i \in 1..Len(t) : t[i].description # u[i].description}) = 1

\* C26: the hash of a tree is that of any tree with the same commands added in
\* another order, and is the same when taken again; a tree that differs in the
\* description of one command gives another value to hash.
C26_HashOfCommandSet ==
    tree.pc \notin {"off", "setup_hook"}
    => /\ get_hash(tree.commands) = tree.tree_hash
       /\ \A t \in Catalogs :
             /\ SameCommands(t, tree.commands) => get_hash(t) = tree.tree_hash
             /\ OneDescriptionChanged(t, tree.commands) => Payload(t) # Payload(tree.commands)

C26_Witness ==
    /\ tree.pc = "get_hash"
    /\ Len(tree.commands) = 2
    /\ Rank(tree.commands[1].name) > Rank(tree.commands[2].name)
    /\ tree.tree_hash = get_hash(<<tree.commands[2], tree.commands[1]>>)

\* C27: the hash is written only after a publish that returned: when the
\* publish raises, the file holds what it held, which is not the hash, and the
\* next startup of the same build comes to publish again.
C27_HashAfterPublish ==
    /\ tree.pc = "raised" => (tree.file = tree.data /\ tree.file # tree.tree_hash)
    /\ (tree.last = "raised" /\ tree.same /\ tree.pc = "done") => tree.log # <<>>
    /\ \A i \in 1..Len(tree.log) : tree.log[i] = "write" => (i > 1 /\ tree.log[i - 1] = "sync")

C27_Witness ==
    /\ tree.last = "raised"
    /\ tree.same
    /\ tree.pc = "done"
    /\ tree.log = <<"sync", "write">>
    /\ tree.file = tree.tree_hash

\* C28: a play command whose search finds no tracks tells the user so and
\* ends: the queue, the current track and the player are as they were, and
\* the handler ends in no other error.
C28_NothingFound ==
    (op.name = "play" /\ op.x = "nothing")
    => (reply = "no tracks" /\ Snapshot = old)

\* C29: a play command puts the track, or the tracks of the playlist in their
\* order, behind the tracks the queue holds, which stay where they are (a
\* handler that waited for a track takes the first of them at once), and every
\* track it puts carries the requester.
C29_PutAppendsTagged ==
    [][\A tracks \in Results :
          PutSeen(tracks)
          => /\ LET all == queue.items \o tracks
                IN \/ queue'.items = all
                   \/ waiting /\ queue'.items = Tail(all)
             /\ \A i \in 1..Len(tracks) : requester'[tracks[i]] = Author]_vars

Exchanged(s, i, j) ==
    [k \in 1..Len(s) |-> IF k = i + 1 THEN s[j + 1] ELSE IF k = j + 1 THEN s[i + 1] ELSE s[k]]

C31_ImportRecreates ==
    [][\A file \in ImportFiles :
          (ImportSeen(file) /\ reply' = "Imported")
          => LET exported == converted_tracks(file)
             IN IF current = None
                THEN <<current'>> \o queue'.items = exported
                ELSE queue'.items = exported]_vars

\* the playback state has come to rest: no command is under way, the backend
\* plays nothing and no notification waits
AtRest == tasks = 0 /\ node = None /\ events = <<>>

\* C32: with play commands given one at a time in normal mode and every
\* started track ending, the tracks queued are started in the order queued,
\* each once: the tracks started so far followed by the tracks in the queue
\* are the tracks queued so far, a start makes the front of the queue the
\* current track, and every track queued is started in the end; and a
\* session at rest with no current track has an empty queue.
C32_EveryTrackPlays ==
    /\ [][/\ \E tracks \in Results \cup {<<>>} : Given(queue') = Given(queue) \o tracks
          /\ queue'.history # queue.history
             => /\ queue'.history = Append(queue.history, Given(queue')[Len(queue.history) + 1])
                /\ current' = queue'.history[Len(queue'.history)]]_vars
    /\ \A n \in 1..MaxSession : (Len(Given(queue)) >= n) ~> (Len(queue.history) >= n)
    /\ []((AtRest /\ current = None) => queue.items = <<>>)

C32_Witness ==
    /\ variant = "musicbot.py"
    /\ queue.history = <<"C", "B", "C">>
    /\ queue.items = <<>>
    /\ current = None
    /\ waiting
    /\ AtRest

\* C33: the page the message of a view shows is the page at page_index, from
\* the sending of the queue listing on and after every turn and entry of a
\* page; the message of a view with no pages shows that the queue is empty.
C33_ShownIsPageIndex ==
    IF total_pages(view) = 0 THEN view.shown = Off
    ELSE view.shown = view.page_index

\* C34: whatever the hash file held, once sync_if_commands_updated has run to
\* its end the file holds the hash and nothing else, and the next startup of
\* the same commands, having run to its end, has published nothing.
C34_SyncIdempotent ==
    /\ tree.pc = "done" => tree.file = tree.tree_hash
    /\ (tree.pc = "done" /\ tree.last = "done" /\ tree.same) => tree.log = <<>>

\* C35: a command given to the session of a player changes its queue, its
\* current track or the player only when the member who gives it is an
\* administrator or is in the player's channel: a member outside it adds
\* nothing to the queue, replaces nothing in it and does not clear it.
C35_OnlyFromBotChannel ==
    [][\A who \in Members :
          (/\ op = NoOp
           /\ player.channel # None
           /\ CommandBy(who)
           /\ (queue' # queue \/ current' # current \/ player' # player))
          => is_in_bot_vc(who[1], who[2])]_vars

\* C36: a guild has one player at most: while it has one, no connect command
\* and no play command makes another, whoever gives the command, from whatever
\* channel and for whatever channel; the player in place keeps its queue, its
\* track and its settings, and is at most moved.
C36_OnePlayer ==
    [][(player.channel # None /\ player'.channel # None)
       => /\ player' = [player EXCEPT !.channel = player'.channel]
          /\ Sess # MusicPlayer => Sess' # MusicPlayer]_vars

C36_Witness ==
    /\ op.name = "connect"
    /\ op.a = 1
    /\ op.x # None
    /\ reply = "ClientException"
    /\ player.channel # None
    /\ queue.items # <<>>

\* C37: every command sends its interaction one first response, a message or
\* a defer, and no more than one: with a player or with none, whatever
\* plays, and whoever gives the command.
C37_AnsweredOnce == op # NoOp => op.a = 1

\* C38: queue remove with an entry from 1 to the length of the queue takes out
\* the track at that place, counted from 1, and leaves the others in their
\* order; with any other entry it leaves the queue as it is and answers that
\* the track does not exist; and neither remove nor clear, move or shuffle
\* changes the current track, what the backend plays or the player.
C38_RemoveAndFrame ==
    [][/\ \A entry \in Positions :
             QueueRemove(entry)
             => IF 1 <= entry /\ entry <= Len(queue.items)
                THEN /\ Len(queue'.items) = Len(queue.items) - 1
                     /\ \A k \in 1..Len(queue'.items) :
                           queue'.items[k] = queue.items[IF k < entry THEN k ELSE k + 1]
                ELSE /\ queue'.items = queue.items
                     /\ reply' = "That track does not exist and cannot be removed."
       /\ Edits => /\ current' = current
                   /\ node' = node
                   /\ events' = events
                   /\ player' = player
                   /\ queue'.loaded = queue.loaded
                   /\ queue'.mode = queue.mode]_vars

C38_Witness ==
    /\ op.name = "remove"
    /\ op.a = 2
    /\ reply = "Removed"
    /\ old.items = <<"A", "B", "C">>
    /\ queue.items = <<"A", "C">>
    /\ current = old.current
    /\ current # None
====
